---- MODULE Spec2Model ----
(***************************************************************************)
(* Retrieval-and-ranking pipeline of the hana-kgvector examples:           *)
(*   - explainRetrieval (pdf-chat/chat.ts): vector match, graph expansion,  *)
(*     metadata/semantic split, provenance boosting, ranking;               *)
(*   - askQuestion (multi-doc-chat/chat.ts): two concurrent retrieval       *)
(*     channels, mergeResults, filterResultsByDocument, getDocumentSources; *)
(*   - the same query asked twice against an unchanged store;               *)
(*   - start-up and the query surfaces of the two chat programs and of the  *)
(*     visualization server (graph-visualizer/server/index.ts);             *)
(*   - the retry loops of embedModel.getTextEmbedding and                   *)
(*     llmClient.structuredPredict at each call site;                       *)
(*   - embedModel.getTextEmbeddingBatch and chunkText of the upload scripts; *)
(*   - the multi-document chat over a sequence of inputs, the prompt loop   *)
(*     of both chat programs, getGraphContext of the server.                *)
(*                                                                         *)
(* JavaScript strings are modelled as sequences of one-character strings,  *)
(* so that slice, includes and toLowerCase are computed, not assumed.      *)
(* Scores are fixed-point numbers: ScoreOne stands for 1.0.                *)
(***************************************************************************)
EXTENDS Integers, Sequences, FiniteSets, TLC

(***************************************************************************)
(* Bounds of the model.                                                    *)
(***************************************************************************)
\* number of vector matches the store returns (similarityTopK in the code)
MaxMatches == 2
\* number of triplets graph expansion returns (limit in the code)
MaxTriplets == 3

(***************************************************************************)
(* JavaScript values and string operations.                                *)
(***************************************************************************)
\* undefined / null: a value no character sequence is equal to
Undefined == <<"undefined">>

\* JavaScript truthiness of a string-or-undefined value
Truthy(v) == v # Undefined /\ v # <<>>

UpperChars == <<"A","B","C","D","E","F","G","H","I","J","K","L","M","N","O","P","Q","R","S","T","U","V","W","X","Y","Z">>
LowerChars == <<"a","b","c","d","e","f","g","h","i","j","k","l","m","n","o","p","q","r","s","t","u","v","w","x","y","z">>

\* the lower-case letter of every upper-case letter
LowerOf == [c \in {UpperChars[i] : i \in DOMAIN UpperChars} |->
              LowerChars[CHOOSE i \in DOMAIN UpperChars : UpperChars[i] = c]]

LowerChar(c) == IF c \in DOMAIN LowerOf THEN LowerOf[c] ELSE c

\* String.prototype.toLowerCase
toLowerCase(s) == [i \in 1..Len(s) |-> LowerChar(s[i])]

\* String.prototype.includes
includes(s, sub) ==
  \E i \in 0..(Len(s) - Len(sub)) : SubSeq(s, i + 1, i + Len(sub)) = sub

\* String.prototype.slice(0, n)
slice0(s, n) == SubSeq(s, 1, IF Len(s) < n THEN Len(s) ELSE n)

\* a ?? b
Coalesce(a, b) == IF a # Undefined THEN a ELSE b

\* a || b on string-or-undefined values
OrElse(a, b) == IF Truthy(a) THEN a ELSE b

Max(a, b) == IF a >= b THEN a ELSE b
Min(a, b) == IF a <= b THEN a ELSE b

\* Array.prototype.indexOf: first index holding v, 0 standing for -1
indexOf(arr, v) ==
  IF \E i \in DOMAIN arr : arr[i] = v
    THEN CHOOSE i \in DOMAIN arr : arr[i] = v /\ \A j \in 1..(i - 1) : arr[j] # v
    ELSE 0

\* Array.prototype.filter
RECURSIVE SelectSeqIdx(_, _)
SelectSeqIdx(n, keep) ==
  IF n = 0 THEN <<>>
  ELSE IF keep[n] THEN Append(SelectSeqIdx(n - 1, keep), n)
  ELSE SelectSeqIdx(n - 1, keep)

(***************************************************************************)
(* Array.prototype.sort with a comparator (a, b) => key(b) - key(a).        *)
(* ECMAScript requires the sort to be stable; it is computed here as the    *)
(* permutation of indices a stable insertion sort produces: element n goes  *)
(* behind every element whose key is at least its own.                      *)
(***************************************************************************)
InsertUnstable(perm, n, key) ==
  LET k == Cardinality({j \in 1..Len(perm) : key[perm[j]] > key[n]})
  IN  SubSeq(perm, 1, k) \o <<n>> \o SubSeq(perm, k + 1, Len(perm))

InsertDesc(perm, n, key) ==
  LET k == Cardinality({j \in 1..Len(perm) : key[perm[j]] >= key[n]})
  IN  SubSeq(perm, 1, k) \o <<n>> \o SubSeq(perm, k + 1, Len(perm))

RECURSIVE SortPermDesc(_, _)
SortPermDesc(n, key) ==
  IF n = 0 THEN <<>> ELSE InsertDesc(SortPermDesc(n - 1, key), n, key)

\* the array left as it was: the sort is missing
sortNone(arr, key) == arr

sortDesc(arr, key) ==
  LET perm == SortPermDesc(Len(arr), key)
  IN  [i \in 1..Len(arr) |-> arr[perm[i]]]

(***************************************************************************)
(* explainRetrieval: the data the graph store can return.                  *)
(***************************************************************************)
\* 1.0 in fixed point (the bound of Math.min(1, ...))
ScoreOne == 1000

\* similarity scores the store reports
ScoreValues == {400, 900, 1000}

\* the score the store reports for a node
SeedScoreOf(n) ==
  IF n.id = <<"A">> THEN 900
  ELSE IF n.id = <<"B">> THEN 400
  ELSE 1000

\* crossCheckBoostFactor as a fraction: 1.0, 1.25 (default), 1.5 (README)
BoostFactors == {[num |-> 4, den |-> 4], [num |-> 5, den |-> 4], [num |-> 6, den |-> 4]}

\* the factor is read only when crossCheckBoost is set
ExplainOptions ==
  {[crossCheckBoost |-> FALSE, crossCheckBoostFactor |-> [num |-> 5, den |-> 4]]}
    \cup [crossCheckBoost : {TRUE}, crossCheckBoostFactor : BoostFactors]

MkNode(id, name, documentId, sourceChunk) ==
  [id |-> id, name |-> name,
   properties |-> [documentId |-> documentId, sourceChunk |-> sourceChunk]]

NodeA == MkNode(<<"A">>, <<"A","l","p","h","a">>, <<"D","o","c","1">>, <<"c","h","1">>)
NodeB == MkNode(<<"B">>, <<"B","e","t","a">>, Undefined, Undefined)
NodeC == MkNode(<<"C">>, <<"G","a","m","m","a">>, <<"d","o","c","1">>, Undefined)
\* a node the store returned without id, name or provenance properties
NodeAnon == MkNode(Undefined, Undefined, Undefined, Undefined)

\* nodes the vector search can match
SeedNodes == {NodeA, NodeB, NodeAnon}

FROM_DOCUMENT == <<"F","R","O","M","_","D","O","C","U","M","E","N","T">>
RDF_TYPE == <<"h","t","t","p",":","/","/","w","w","w",".","w","3",".","o","r","g","/","1","9","9","9","/","0","2","/","2","2","-","r","d","f","-","s","y","n","t","a","x","-","n","s","#","t","y","p","e">>
PROP_MARKER == <<"u","r","n",":","h","k","v",":","p","r","o","p",":">>
RELATED_TO == <<"R","E","L","A","T","E","D","_","T","O">>

MkPred(label, id) == [label |-> label, id |-> id]

\* triplets graph expansion can return: three semantic facts and one
\* bookkeeping edge of each reserved kind
TripletUniverse ==
  { <<NodeA, MkPred(RELATED_TO, RELATED_TO), NodeC>>,
    <<NodeB, MkPred(RELATED_TO, RELATED_TO), NodeA>>,
    <<NodeAnon, MkPred(Undefined, RELATED_TO), NodeB>>,
    <<NodeC, MkPred(FROM_DOCUMENT, FROM_DOCUMENT), NodeA>>,
    <<NodeA, MkPred(RDF_TYPE, RDF_TYPE), NodeB>>,
    <<NodeB, MkPred(Undefined, PROP_MARKER \o <<"d","o","c","u","m","e","n","t","I","d">>), NodeC>> }

SeqsUpTo(S, n) == UNION {[1..k -> S] : k \in 0..n}

\* the (nodes, scores) pairs vectorQuery can return: distinct nodes, one
\* score per node
VectorQueryResults ==
  { r \in [nodes : SeqsUpTo(SeedNodes, MaxMatches), scores : SeqsUpTo(ScoreValues, MaxMatches)] :
      /\ Len(r.nodes) = Len(r.scores)
      /\ \A i \in DOMAIN r.nodes : r.scores[i] = SeedScoreOf(r.nodes[i])
      /\ \A i, j \in DOMAIN r.nodes : i # j => r.nodes[i] # r.nodes[j] }


(***************************************************************************)
(* State.                                                                  *)
(***************************************************************************)
VARIABLES
  epc,             \* position in explainRetrieval: idle, vectorQuery, getRelMap, done
  options,         \* the options explainRetrieval was called with
  kgNodes,         \* nodes returned by graphStore.vectorQuery
  scores,          \* their scores
  provenanceSet,   \* lower-cased ids, names, documentIds, sourceChunks of kgNodes
  triplets,        \* triplets returned by graphStore.getRelMap
  scoredTriplets   \* the scored and ranked triplets

explainVars == <<epc, options, kgNodes, scores, provenanceSet, triplets, scoredTriplets>>

VARIABLES
  cpc,             \* position in the chat loop: prompt, embedding, searching, generating
  documentFilter,  \* the active document filter
  kgResults,       \* what index.query resolved with
  chunkResults,    \* what directSourceChunkSearch resolved with
  settled,         \* the channels that have resolved, in completion order
  merged,          \* mergeResults(kgResults, chunkResults)
  results,         \* the results after the document filter
  lastSources,     \* document sources of the last query
  asked            \* number of questions asked so far

chatVars == <<cpc, documentFilter, kgResults, chunkResults, settled, merged, results, lastSources, asked>>

VARIABLES
  rprog,           \* the program that answers the repeated query: none, explain, merge
  rstore,          \* what the unchanged store holds for the query
  rinputs,         \* what the store returned in each run, in the order it returned it
  rranked,         \* the ranked triplets of each run of explainRetrieval
  rmerged          \* the merged results of each run of the multi-document question

repeatVars == <<rprog, rstore, rinputs, rranked, rmerged>>

VARIABLES
  sprog,           \* the program that runs: pdf-chat, multi-doc-chat, graph-visualizer
  spc,             \* off, connecting, serving (prompt issued or port open), handling, exited
  sconn,           \* the store connection: none, open
  sinput,          \* the input last received
  sstage,          \* the stage of the handler whose calls are in flight, 0 when none
  scalls,          \* the outbound calls issued for the input last received
  sreply,          \* the reply to the input last handled
  sserved          \* the number of inputs received

serveVars == <<sprog, spc, sconn, sinput, sstage, scalls, sreply, sserved>>

VARIABLES
  tsite,           \* the call site whose call is made
  tpc,             \* idle, calling, sleeping, ended
  tattempt,        \* the attempt of the retry loop
  tdelays,         \* the delays slept so far in this call, in ms
  tlast,           \* what the provider answered to the last attempt
  tseen,           \* what the provider answered to the attempts of this call
  tresult,         \* how the call ended: none, value, empty, rejected
  tn,              \* number of calls of the enclosing batch or query
  tdone,           \* number of calls of it that have returned
  tunit            \* the enclosing batch or query: none, running, done, aborted

retryVars == <<tsite, tpc, tattempt, tdelays, tlast, tseen, tresult, tn, tdone, tunit>>

VARIABLES
  bprog,           \* the upload script that runs: none, upload-pdf, upload-docs
  bpc,             \* idle, computing, returned, rejected
  btexts,          \* the texts getTextEmbeddingBatch was called with
  bcache,          \* the cache: the embedding stored for each text
  btodo,           \* the texts the loop computes, in its order
  bi,              \* the loop index i
  bdone,           \* the embeddings of the running Promise.all, by index
  bresult,         \* the array the call resolved with
  bhits,           \* the texts of this call found in the cache at its start
  bcalls           \* number of calls of getTextEmbeddingBatch so far

batchVars == <<bprog, bpc, btexts, bcache, btodo, bi, bdone, bresult, bhits, bcalls>>

VARIABLES
  mpc,             \* prompt, embedding, searching, generating, exited
  mfilter,         \* documentFilter
  mlast,           \* lastSources
  mcmd,            \* the query of the handler in flight: none, question, compare
  mwait,           \* the searches of the Promise.all that have not settled
  mkg,             \* what index.query resolved with
  mchunk,          \* what directSourceChunkSearch resolved with
  mdirect,         \* how the direct search of the query went: none, rows or a failure
  mresults,        \* the results of the last retrieval that completed
  mfilterAt,       \* the filter that was active when it completed
  mreply,          \* the reply to the last input: none, fixed, generated, error
  merror,          \* the awaited call whose rejection reached the catch, or none
  mgenerated,      \* number of requests to the answer generator for the last query
  mreport,         \* what the last 'sources' command printed
  minputs,         \* number of inputs received
  minput           \* the input received last

sessionVars == <<mpc, mfilter, mlast, mcmd, mwait, mkg, mchunk, mdirect, mresults,
                 mfilterAt, mreply, merror, mgenerated, mreport, minputs, minput>>

VARIABLES
  lprog,           \* the chat program that runs: none, pdf-chat, multi-doc-chat
  lalive,          \* the process has not exited
  lpending,        \* rl.question has a callback waiting for a line
  lflight,         \* the handlers that have started and not finished
  lprompts,        \* number of prompts issued
  lfinished,       \* number of handlers that ran to their end
  llines,          \* number of lines typed
  lauto,           \* AUTO_EXPLAIN
  lhasLast         \* lastQuestion is set

loopVars == <<lprog, lalive, lpending, lflight, lprompts, lfinished, llines, lauto, lhasLast>>

VARIABLES
  gcache,          \* graphContextByName: the context stored for each normalized name
  gcreated,        \* the normalized name of every context created, in creation order
  greqs            \* the /api/query requests: graph name, position, context

contextVars == <<gcache, gcreated, greqs>>

VARIABLES
  kpc,             \* position in chunkText: idle, loop, returned
  ktext,           \* text
  kchunkSize,      \* chunkSize
  koverlap,        \* overlap
  kstart,          \* start
  kchunks          \* chunks

chunkVars == <<kpc, ktext, kchunkSize, koverlap, kstart, kchunks>>

vars == <<explainVars, chatVars, repeatVars, serveVars, retryVars, batchVars, sessionVars,
          loopVars, contextVars, chunkVars>>

\* what the steps of one part of the program leave alone
notExplainVars == <<chatVars, repeatVars, serveVars, retryVars, batchVars, sessionVars, loopVars, contextVars, chunkVars>>
notChatVars == <<explainVars, repeatVars, serveVars, retryVars, batchVars, sessionVars, loopVars, contextVars, chunkVars>>
notRepeatVars == <<explainVars, chatVars, serveVars, retryVars, batchVars, sessionVars, loopVars, contextVars, chunkVars>>
notServeVars == <<explainVars, chatVars, repeatVars, retryVars, batchVars, sessionVars, loopVars, contextVars, chunkVars>>
notRetryVars == <<explainVars, chatVars, repeatVars, serveVars, batchVars, sessionVars, loopVars, contextVars, chunkVars>>
notBatchVars == <<explainVars, chatVars, repeatVars, serveVars, retryVars, sessionVars, loopVars, contextVars, chunkVars>>
notSessionVars == <<explainVars, chatVars, repeatVars, serveVars, retryVars, batchVars, loopVars, contextVars, chunkVars>>
notLoopVars == <<explainVars, chatVars, repeatVars, serveVars, retryVars, batchVars, sessionVars, contextVars, chunkVars>>
notContextVars == <<explainVars, chatVars, repeatVars, serveVars, retryVars, batchVars, sessionVars, loopVars, chunkVars>>
notChunkVars == <<explainVars, chatVars, repeatVars, serveVars, retryVars, batchVars, sessionVars, loopVars, contextVars>>

(***************************************************************************)
(* explainRetrieval.                                                       *)
(***************************************************************************)
\* lines 216-225, without the lower-casing
buildProvenanceSetRaw(opts, nodes) ==
  IF ~opts.crossCheckBoost THEN {}
  ELSE UNION { { v \in {nodes[i].id, nodes[i].name,
                        nodes[i].properties.documentId,
                        nodes[i].properties.sourceChunk} : Truthy(v) }
               : i \in DOMAIN nodes }

\* lines 216-225
buildProvenanceSet(opts, nodes) ==
  IF ~opts.crossCheckBoost THEN {}
  ELSE UNION { { toLowerCase(v) : v \in { w \in {nodes[i].id, nodes[i].name,
                                                  nodes[i].properties.documentId,
                                                  nodes[i].properties.sourceChunk} : Truthy(w) } }
               : i \in DOMAIN nodes }

\* lines 234-240
isMetadataPredicate(pred) ==
  \/ ~Truthy(pred)
  \/ includes(pred, PROP_MARKER)
  \/ pred = RDF_TYPE
  \/ pred = FROM_DOCUMENT

\* line 244: t?.[1]?.label ?? t?.[1]?.id ?? ""
predicateOf(t) == Coalesce(Coalesce(t[2].label, t[2].id), <<>>)

\* lines 242-250: the semantic part of the split
splitSemantic(ts) ==
  LET keep == [i \in 1..Len(ts) |-> ~isMetadataPredicate(predicateOf(ts[i]))]
      idx == SelectSeqIdx(Len(ts), keep)
  IN  [i \in 1..Len(idx) |-> ts[idx[i]]]

\* lines 242-250: the metadata part of the split
splitMetadata(ts) ==
  LET keep == [i \in 1..Len(ts) |-> isMetadataPredicate(predicateOf(ts[i]))]
      idx == SelectSeqIdx(Len(ts), keep)
  IN  [i \in 1..Len(idx) |-> ts[idx[i]]]

\* line 256: the triplets that are scored
scoredSource(ts) == IF Len(splitSemantic(ts)) > 0 THEN splitSemantic(ts) ELSE ts

\* lines 257-261 with Math.min in place of Math.max
baseScoreMin(t, nodes, scs) ==
  LET kgIds == [i \in 1..Len(nodes) |-> nodes[i].id]
      idx1 == indexOf(kgIds, t[1].id)
      idx2 == indexOf(kgIds, t[3].id)
      score1 == IF idx1 >= 1 /\ idx1 \in DOMAIN scs THEN scs[idx1] ELSE 0
      score2 == IF idx2 >= 1 /\ idx2 \in DOMAIN scs THEN scs[idx2] ELSE 0
  IN  Min(score1, score2)

\* lines 255, 257-261
baseScore(t, nodes, scs) ==
  LET kgIds == [i \in 1..Len(nodes) |-> nodes[i].id]
      idx1 == indexOf(kgIds, t[1].id)
      idx2 == indexOf(kgIds, t[3].id)
      score1 == IF idx1 >= 1 /\ idx1 \in DOMAIN scs THEN scs[idx1] ELSE 0
      score2 == IF idx2 >= 1 /\ idx2 \in DOMAIN scs THEN scs[idx2] ELSE 0
  IN  Max(score1, score2)

\* lines 268-271 only: the documentId and sourceChunk of subject and object
shouldBoostByProperties(t, prov) ==
  LET s == t[1]
      o == t[3]
      hit(v) == Truthy(v) /\ toLowerCase(v) \in prov
  IN  \/ hit(s.properties.documentId)
      \/ hit(s.properties.sourceChunk)
      \/ hit(o.properties.documentId)
      \/ hit(o.properties.sourceChunk)

\* lines 268-276
shouldBoost(t, prov) ==
  LET s == t[1]
      o == t[3]
      hit(v) == Truthy(v) /\ toLowerCase(v) \in prov
  IN  \/ hit(s.properties.documentId)
      \/ hit(s.properties.sourceChunk)
      \/ hit(o.properties.documentId)
      \/ hit(o.properties.sourceChunk)
      \/ hit(s.id)
      \/ hit(s.name)
      \/ hit(o.id)
      \/ hit(o.name)

\* line 279 without the Math.min
boostUnclamped(boosted, factor) == (boosted * factor.num) \div factor.den

\* line 279: Math.min(1, boosted * options.crossCheckBoostFactor)
boost(boosted, factor) == Min(ScoreOne, (boosted * factor.num) \div factor.den)

\* lines 256-285: one element of the map; ord is a ghost field holding the
\* element's position in the array that is mapped
scoreTriplet(t, ord, opts, nodes, scs, prov) ==
  LET base == baseScore(t, nodes, scs)
      boostIt == opts.crossCheckBoost /\ base > 0 /\ shouldBoost(t, prov)
  IN  [triplet |-> t,
       baseScore |-> base,
       score |-> IF boostIt THEN boost(base, opts.crossCheckBoostFactor) ELSE base,
       boostedReason |-> IF boostIt THEN "provenance match" ELSE "null",
       ord |-> ord]

\* lines 256-287: map, then sort descending by score
rankTriplets(ts, opts, nodes, scs, prov) ==
  LET src == scoredSource(ts)
      mapped == [i \in 1..Len(src) |-> scoreTriplet(src[i], i, opts, nodes, scs, prov)]
  IN  sortDesc(mapped, [i \in 1..Len(mapped) |-> mapped[i].score])

(***************************************************************************)
(* The ranking index.query performs in production. Its code is in the      *)
(* hana-kgvector package; it is written down here from sections 4.3 and 4.4 *)
(* of the specification.                                                   *)
(***************************************************************************)
productionFields(n) ==
  {n.id, n.name, n.properties.documentId, n.properties.sourceChunk} \ {Undefined}

\* 4.4 step 1
productionProvenance(nodes) ==
  { toLowerCase(v) : v \in UNION { productionFields(nodes[i]) : i \in DOMAIN nodes } }

productionMatchScore(n, nodes, scs) ==
  IF \E i \in DOMAIN nodes : nodes[i].id = n.id
    THEN scs[CHOOSE i \in DOMAIN nodes :
               nodes[i].id = n.id /\ \A j \in 1..(i - 1) : nodes[j].id # n.id]
    ELSE 0

\* 4.4 steps 2 and 3
productionScore(t, opts, nodes, scs) ==
  LET base == Max(productionMatchScore(t[1], nodes, scs), productionMatchScore(t[3], nodes, scs))
      f == opts.crossCheckBoostFactor
      corroborated == \E v \in productionFields(t[1]) \cup productionFields(t[3]) :
                        toLowerCase(v) \in productionProvenance(nodes)
  IN  [triplet |-> t,
       baseScore |-> base,
       score |-> IF opts.crossCheckBoost /\ base > 0 /\ corroborated
                   THEN Min(ScoreOne, (base * f.num) \div f.den)
                   ELSE base]

\* 4.3 and 4.4 step 4: only semantic triplets are scored, then sorted
\* descending by boosted score, ties in traversal order
productionRank(ts, opts, nodes, scs) ==
  LET keep == [i \in 1..Len(ts) |->
                 LET p == predicateOf(ts[i])
                 IN  ~(p = <<>> \/ p = FROM_DOCUMENT \/ p = RDF_TYPE \/ includes(p, PROP_MARKER))]
      idx == SelectSeqIdx(Len(ts), keep)
      mapped == [i \in 1..Len(idx) |-> productionScore(ts[idx[i]], opts, nodes, scs)]
  IN  sortDesc(mapped, [i \in 1..Len(mapped) |-> mapped[i].score])

ExplainInit ==
  /\ epc = "idle"
  /\ options = [crossCheckBoost |-> TRUE, crossCheckBoostFactor |-> [num |-> 5, den |-> 4]]
  /\ kgNodes = <<>>
  /\ scores = <<>>
  /\ provenanceSet = {}
  /\ triplets = <<>>
  /\ scoredTriplets = <<>>

\* explainRetrieval is called: lines 180-198, up to the vectorQuery call
ExplainStart(opts) ==
  /\ epc = "idle"
  /\ epc' = "vectorQuery"
  /\ options' = opts
  /\ UNCHANGED <<kgNodes, scores, provenanceSet, triplets, scoredTriplets>>
  /\ UNCHANGED notExplainVars

\* vectorQuery returns: lines 195-232, up to the getRelMap call
VectorQueryReturn(r) ==
  /\ epc = "vectorQuery"
  /\ kgNodes' = r.nodes
  /\ scores' = r.scores
  /\ IF Len(r.nodes) = 0
       THEN /\ epc' = "done"
            /\ provenanceSet' = {}
       ELSE /\ epc' = "getRelMap"
            /\ provenanceSet' = buildProvenanceSet(options, r.nodes)
  /\ UNCHANGED <<options, triplets, scoredTriplets>>
  /\ UNCHANGED notExplainVars

\* getRelMap returns: lines 227-299
GetRelMapReturn(ts) ==
  /\ epc = "getRelMap"
  /\ triplets' = ts
  /\ scoredTriplets' = rankTriplets(ts, options, kgNodes, scores, provenanceSet)
  /\ epc' = "done"
  /\ UNCHANGED <<options, kgNodes, scores, provenanceSet>>
  /\ UNCHANGED notExplainVars

\* explainRetrieval returns (lines 203, 299): its locals are gone
ExplainReturn ==
  /\ epc = "done"
  /\ epc' = "idle"
  /\ kgNodes' = <<>>
  /\ scores' = <<>>
  /\ provenanceSet' = {}
  /\ triplets' = <<>>
  /\ scoredTriplets' = <<>>
  /\ UNCHANGED options
  /\ UNCHANGED notExplainVars

ExplainNext ==
  \/ \E opts \in ExplainOptions : ExplainStart(opts)
  \/ \E r \in VectorQueryResults : VectorQueryReturn(r)
  \/ \E ts \in SeqsUpTo(TripletUniverse, MaxTriplets) : GetRelMapReturn(ts)
  \/ ExplainReturn


\* (nodes, scores) pairs of different lengths: the last score is missing, or
\* there is one score too many
MismatchedResults ==
  UNION { { [nodes |-> r.nodes, scores |-> sc] :
              sc \in {SubSeq(r.scores, 1, Len(r.scores) - 1), Append(r.scores, 400)} } :
            r \in {q \in VectorQueryResults : Len(q.nodes) > 0} }

\* explainRetrieval with the default options or without boosting, and a
\* store that returns arrays of different lengths
ExplainMismatchNext ==
  \/ \E opts \in {o \in ExplainOptions : o.crossCheckBoostFactor = [num |-> 5, den |-> 4]} :
       ExplainStart(opts)
  \/ \E r \in MismatchedResults : VectorQueryReturn(r)
  \/ \E ts \in SeqsUpTo(TripletUniverse, MaxTriplets) : GetRelMapReturn(ts)
  \/ ExplainReturn

(***************************************************************************)
(* askQuestion of the multi-document chat: the data the two retrieval      *)
(* channels can return.                                                    *)
(***************************************************************************)
\* number of questions asked in one run of the chat
MaxQuestions == 1
\* number of results index.query returns
MaxKgResults == 2
\* number of rows directSourceChunkSearch returns (topK in the code)
MaxChunkResults == 1

\* length of the text prefix used as dedup key
DedupKeyLen == 200

\* a result without a score
NoScore == -1

ResultScores == {800, 900}

MkMetadata(documentId, from_document) ==
  [documentId |-> documentId, from_document |-> from_document,
   fromDocument |-> Undefined, docId |-> Undefined, document |-> Undefined]

MkChunk(id, text, metadata) == [id |-> id, text |-> text, metadata |-> metadata]

InstallationManual == <<"I","n","s","t","a","l","l","a","t","i","o","n","-","M","a","n","u","a","l">>
UserGuide == <<"U","s","e","r","-","G","u","i","d","e">>

\* a text of DedupKeyLen + 1 characters ending in c
LongText(c) == [i \in 1..DedupKeyLen |-> "a"] \o <<c>>

\* two chunks whose texts differ only behind the key prefix, a chunk without
\* text whose document is recorded as from_document only, a short chunk
Chunk1 == MkChunk(<<"c","1">>, LongText("x"), MkMetadata(InstallationManual, Undefined))
Chunk2 == MkChunk(<<"c","2">>, LongText("y"), MkMetadata(UserGuide, Undefined))
Chunk3 == MkChunk(<<"c","3">>, <<>>, MkMetadata(Undefined, InstallationManual))
Chunk4 == MkChunk(<<"c","4">>, <<"a","b">>, MkMetadata(UserGuide, Undefined))
Chunks == {Chunk1, Chunk2, Chunk3, Chunk4}

\* results carry two ghost fields: the channel that returned them and their
\* position in that channel's list
MkResult(node, score) == [node |-> node, score |-> score]

Tag(rs, channel) ==
  [i \in 1..Len(rs) |-> [node |-> rs[i].node, score |-> rs[i].score,
                         channel |-> channel, pos |-> i]]

\* the scores index.query reports for a chunk; one score may be missing
KgScoresOf(c) ==
  IF c = Chunk1 THEN {800}
  ELSE IF c = Chunk2 THEN {900}
  ELSE IF c = Chunk4 THEN {NoScore}
  ELSE ResultScores

\* the scores directSourceChunkSearch reports for a chunk
ChunkScoresOf(c) ==
  IF c = Chunk1 \/ c = Chunk2 THEN {900} ELSE {800}

\* index.query: any order
KgResultLists ==
  SeqsUpTo(UNION {{MkResult(c, sc) : sc \in KgScoresOf(c)} : c \in Chunks}, MaxKgResults)

\* directSourceChunkSearch: rows of distinct ID, ORDER BY SCORE DESC
ChunkResultLists ==
  { rs \in SeqsUpTo(UNION {{MkResult(c, sc) : sc \in ChunkScoresOf(c)} : c \in Chunks}, MaxChunkResults) :
      \A i, j \in DOMAIN rs :
        i < j => (rs[i].node.id # rs[j].node.id /\ rs[i].score >= rs[j].score) }

\* the filters the user sets
FilterInputs ==
  { << <<"i","n","s","t","a","l","l","a","t","i","o","n">> >>,
    << <<"G","U","I","D","E">>, <<"m","a","n","u","a","l">> >> }

(***************************************************************************)
(* mergeResults, filterResultsByDocument, getDocumentSources.              *)
(***************************************************************************)
\* lines 149, 158 with the channel made part of the key
dedupKeyPerChannel(r) ==
  <<r.channel>> \o
    OrElse(IF r.node.text = Undefined THEN Undefined ELSE slice0(r.node.text, DedupKeyLen),
           r.node.id)

\* lines 149, 158: r.node?.text?.slice(0, 200) || r.node?.id
dedupKey(r) ==
  OrElse(IF r.node.text = Undefined THEN Undefined ELSE slice0(r.node.text, DedupKeyLen),
         r.node.id)

\* lines 148-154, 157-163: one loop over a result list
RECURSIVE addUnseen(_, _, _)
addUnseen(acc, rs, i) ==
  IF i > Len(rs) THEN acc
  ELSE LET key == dedupKey(rs[i])
       IN  IF key \in acc.seen
             THEN addUnseen(acc, rs, i + 1)
             ELSE addUnseen([seen |-> acc.seen \cup {key},
                             merged |-> Append(acc.merged, rs[i])], rs, i + 1)

\* lines 144-163 with the two loops in the other order
dedupChunkFirst(kg, chunk) ==
  addUnseen(addUnseen([seen |-> {}, merged |-> <<>>], chunk, 1), kg, 1).merged

\* lines 144-163
dedup(kg, chunk) ==
  addUnseen(addUnseen([seen |-> {}, merged |-> <<>>], kg, 1), chunk, 1).merged

\* line 166: r.score || 0
scoreOrZero(r) == IF r.score = NoScore THEN 0 ELSE r.score

\* lines 143-169
mergeResults(kg, chunk) ==
  LET m == dedup(kg, chunk)
  IN  sortDesc(m, [i \in 1..Len(m) |-> scoreOrZero(m[i])])

\* String.prototype.trim
RECURSIVE trimStart(_)
trimStart(s) == IF s # <<>> /\ s[1] = " " THEN trimStart(Tail(s)) ELSE s

RECURSIVE trimEnd(_)
trimEnd(s) ==
  IF s # <<>> /\ s[Len(s)] = " " THEN trimEnd(SubSeq(s, 1, Len(s) - 1)) ELSE s

trim(s) == trimEnd(trimStart(s))

\* lines 189-201; Undefined stands for null
getResultDocumentId(r) ==
  LET md == r.node.metadata
      docId == Coalesce(md.documentId,
               Coalesce(md.from_document,
               Coalesce(md.fromDocument,
               Coalesce(md.docId, md.document))))
  IN  IF docId = Undefined THEN Undefined
      ELSE IF trim(docId) # <<>> THEN trim(docId) ELSE Undefined

\* lines 283-285: the predicate of the filter
passesFilter(r, filter) ==
  LET docId == r.node.metadata.documentId
  IN  /\ Truthy(docId)
      /\ \E k \in DOMAIN filter : includes(toLowerCase(docId), toLowerCase(filter[k]))

\* lines 279-287 collecting the survivors with unshift instead of push
filterResultsReversed(rs, filter) ==
  IF Len(filter) = 0 THEN rs
  ELSE LET idx == SelectSeqIdx(Len(rs), [i \in 1..Len(rs) |-> passesFilter(rs[i], filter)])
       IN  [i \in 1..Len(idx) |-> rs[idx[Len(idx) + 1 - i]]]

\* lines 279-287
filterResultsByDocument(rs, filter) ==
  IF Len(filter) = 0 THEN rs
  ELSE LET idx == SelectSeqIdx(Len(rs), [i \in 1..Len(rs) |-> passesFilter(rs[i], filter)])
       IN  [i \in 1..Len(idx) |-> rs[idx[i]]]

\* lines 292-300 setting the count to 1 instead of adding 1
getDocumentSourcesFlat(rs) ==
  LET docs == { getResultDocumentId(rs[i]) : i \in DOMAIN rs } \ {Undefined}
  IN  [d \in docs |-> 1]

\* lines 292-300: the Map as a function from document id to passage count
getDocumentSources(rs) ==
  LET docs == { getResultDocumentId(rs[i]) : i \in DOMAIN rs } \ {Undefined}
  IN  [d \in docs |-> Cardinality({i \in DOMAIN rs : getResultDocumentId(rs[i]) = d})]

\* Promise.all resolving with the values in completion order
promiseAllByCompletion(order, kg, chunk) ==
  IF order[1] = "kg" THEN <<kg, chunk>> ELSE <<chunk, kg>>

\* lines 475-478: Promise.all resolves with the values in argument order
promiseAll(order, kg, chunk) == <<kg, chunk>>

(***************************************************************************)
(* The chat loop.                                                          *)
(***************************************************************************)
ChatInit ==
  /\ cpc = "prompt"
  /\ documentFilter = <<>>
  /\ kgResults = <<>>
  /\ chunkResults = <<>>
  /\ settled = <<>>
  /\ merged = <<>>
  /\ results = <<>>
  /\ lastSources = <<>>
  /\ asked = 0

\* lines 398-403: "filter clear"
InputFilterClear ==
  /\ cpc = "prompt"
  /\ documentFilter' = <<>>
  /\ UNCHANGED <<cpc, kgResults, chunkResults, settled, merged, results, lastSources, asked>>
  /\ UNCHANGED notChatVars

\* lines 405-413: "filter <doc1> <doc2>"
InputFilterSet(docs) ==
  /\ cpc = "prompt"
  /\ documentFilter' = IF Len(docs) > 0 /\ Truthy(docs[1]) THEN docs ELSE documentFilter
  /\ UNCHANGED <<cpc, kgResults, chunkResults, settled, merged, results, lastSources, asked>>
  /\ UNCHANGED notChatVars

\* lines 467-472: a question, up to the embedding request
InputQuestion ==
  /\ cpc = "prompt"
  /\ asked < MaxQuestions
  /\ asked' = asked + 1
  /\ cpc' = "embedding"
  /\ UNCHANGED <<documentFilter, kgResults, chunkResults, settled, merged, results, lastSources>>
  /\ UNCHANGED notChatVars

\* lines 472-478: the embedding arrives, both searches are started
EmbeddingReturn ==
  /\ cpc = "embedding"
  /\ cpc' = "searching"
  /\ UNCHANGED <<documentFilter, kgResults, chunkResults, settled, merged, results, lastSources, asked>>
  /\ UNCHANGED notChatVars

\* line 476: index.query resolves
IndexQueryReturn(rs) ==
  /\ cpc = "searching"
  /\ \A i \in DOMAIN settled : settled[i] # "kg"
  /\ kgResults' = Tag(rs, "graph")
  /\ settled' = Append(settled, "kg")
  /\ UNCHANGED <<cpc, documentFilter, chunkResults, merged, results, lastSources, asked>>
  /\ UNCHANGED notChatVars

\* lines 102-138, 477: directSourceChunkSearch resolves
DirectSearchReturn(rs) ==
  /\ cpc = "searching"
  /\ \A i \in DOMAIN settled : settled[i] # "direct"
  /\ chunkResults' = Tag(rs, "direct")
  /\ settled' = Append(settled, "direct")
  /\ UNCHANGED <<cpc, documentFilter, kgResults, merged, results, lastSources, asked>>
  /\ UNCHANGED notChatVars

\* lines 475-502: both searches have resolved; merge, filter, sources, up to
\* the request to the answer generator
SearchesJoined ==
  /\ cpc = "searching"
  /\ Len(settled) = 2
  /\ LET all == promiseAll(settled, kgResults, chunkResults)
         m == mergeResults(all[1], all[2])
         rs == IF Len(documentFilter) > 0
                 THEN filterResultsByDocument(m, documentFilter)
                 ELSE m
     IN  /\ merged' = m
         /\ results' = rs
         /\ lastSources' = getDocumentSources(rs)
  /\ cpc' = "generating"
  /\ UNCHANGED <<documentFilter, kgResults, chunkResults, settled, asked>>
  /\ UNCHANGED notChatVars

\* lines 502-519: the answer arrives and is printed; the locals of the
\* handler are gone, the next prompt is issued
GenerateReturn ==
  /\ cpc = "generating"
  /\ cpc' = "prompt"
  /\ kgResults' = <<>>
  /\ chunkResults' = <<>>
  /\ settled' = <<>>
  /\ merged' = <<>>
  /\ results' = <<>>
  /\ UNCHANGED <<documentFilter, lastSources, asked>>
  /\ UNCHANGED notChatVars

ChatNext ==
  \/ InputFilterClear
  \/ \E docs \in FilterInputs : InputFilterSet(docs)
  \/ InputQuestion
  \/ EmbeddingReturn
  \/ \E rs \in KgResultLists : IndexQueryReturn(rs)
  \/ \E rs \in ChunkResultLists : DirectSearchReturn(rs)
  \/ SearchesJoined
  \/ GenerateReturn

(***************************************************************************)
(* The same query asked twice against an unchanged store. The store holds  *)
(* a fixed set of triplets and of results for the query; every call returns *)
(* all of them, in an order of its own choosing (rows of the direct search  *)
(* by descending score).                                                   *)
(***************************************************************************)
\* pdf-chat/chat.ts lines 29-35
DefaultQueryOptions ==
  [crossCheckBoost |-> TRUE, crossCheckBoostFactor |-> [num |-> 5, den |-> 4]]

\* the orders in which the elements of a set can be returned
Orderings(S) ==
  { p \in [1..Cardinality(S) -> S] : \A i, j \in 1..Cardinality(S) : i # j => p[i] # p[j] }

\* the vector matches of the repeated query: most similar first
RepeatSeeds ==
  { r \in VectorQueryResults : Len(r.nodes) = 2 /\ r.nodes[1] = NodeA }

SubsetsUpTo(S, n) == { T \in SUBSET S : Cardinality(T) <= n }

KgResultUniverse == UNION {{MkResult(c, sc) : sc \in KgScoresOf(c)} : c \in Chunks}

ChunkResultUniverse == UNION {{MkResult(c, sc) : sc \in ChunkScoresOf(c)} : c \in Chunks}

RepeatInit ==
  /\ rprog = "none"
  /\ rstore = [nodes |-> <<>>, scores |-> <<>>, triplets |-> {}, kg |-> {}, rows |-> {}]
  /\ rinputs = <<>>
  /\ rranked = <<>>
  /\ rmerged = <<>>

\* the store as it is when the pdf chat is asked the question
RepeatExplainStore(seed, S) ==
  /\ rprog = "none"
  /\ rprog' = "explain"
  /\ rstore' = [nodes |-> seed.nodes, scores |-> seed.scores, triplets |-> S,
                kg |-> {}, rows |-> {}]
  /\ UNCHANGED <<rinputs, rranked, rmerged>>
  /\ UNCHANGED notRepeatVars

\* the store as it is when the multi-document chat is asked the question
RepeatMergeStore(K, R) ==
  /\ rprog = "none"
  /\ rprog' = "merge"
  /\ rstore' = [nodes |-> <<>>, scores |-> <<>>, triplets |-> {}, kg |-> K, rows |-> R]
  /\ UNCHANGED <<rinputs, rranked, rmerged>>
  /\ UNCHANGED notRepeatVars

\* pdf-chat/chat.ts lines 180-299: one run of explainRetrieval for the query
RepeatExplain(ts) ==
  /\ rprog = "explain"
  /\ Len(rranked) < 2
  /\ rinputs' = Append(rinputs, ts)
  /\ rranked' = Append(rranked,
                  rankTriplets(ts, DefaultQueryOptions, rstore.nodes, rstore.scores,
                               buildProvenanceSet(DefaultQueryOptions, rstore.nodes)))
  /\ UNCHANGED <<rprog, rstore, rmerged>>
  /\ UNCHANGED notRepeatVars

\* multi-doc-chat/chat.ts lines 472-481: one run of the two searches and of
\* mergeResults for the query
RepeatMerge(kg, rows) ==
  /\ rprog = "merge"
  /\ Len(rmerged) < 2
  /\ \A i, j \in DOMAIN rows : i < j => rows[i].score >= rows[j].score
  /\ rinputs' = Append(rinputs, <<kg, rows>>)
  /\ rmerged' = Append(rmerged, mergeResults(Tag(kg, "graph"), Tag(rows, "direct")))
  /\ UNCHANGED <<rprog, rstore, rranked>>
  /\ UNCHANGED notRepeatVars

RepeatNext ==
  \/ \E seed \in RepeatSeeds, S \in SubsetsUpTo(TripletUniverse, MaxTriplets) :
       RepeatExplainStore(seed, S)
  \/ \E K \in SubsetsUpTo(KgResultUniverse, MaxKgResults),
        R \in SubsetsUpTo(ChunkResultUniverse, MaxChunkResults) :
       RepeatMergeStore(K, R)
  \/ \E ts \in Orderings(rstore.triplets) : RepeatExplain(ts)
  \/ \E kg \in Orderings(rstore.kg), rows \in Orderings(rstore.rows) : RepeatMerge(kg, rows)

(***************************************************************************)
(* Start-up and the query surfaces: the prompt of the two chat programs and *)
(* POST /api/query of the visualization server.                            *)
(***************************************************************************)
\* number of inputs a run of a program receives
MaxRequests == 2

Programs == {"pdf-chat", "multi-doc-chat", "graph-visualizer"}

\* the lines typed at a prompt and the query fields posted to the server;
\* Undefined is a request body without a query
QueryInputs ==
  { <<>>, <<" ">>, <<"w","h","o">>, <<" ","h","i"," ">>, <<"e","x","i","t">>, Undefined }

\* the outbound calls a question makes, stage by stage; the calls of one
\* stage are issued together
Pipeline(prog) ==
  IF prog = "graph-visualizer"
    THEN << <<"embedding">>, <<"vectorQuery">>, <<"getRelMap">>, <<"index.query">>, <<"llm">> >>
  ELSE IF prog = "multi-doc-chat"
    THEN << <<"embedding">>, <<"index.query", "directSourceChunkSearch">>, <<"llm">> >>
  ELSE << <<"index.query">>, <<"llm">> >>

\* then(listen) and catch(exit) that ignores the failure
afterConnectIgnoringFailure(ok) == "serving"

\* graph-visualizer/server/index.ts lines 379-389, pdf-chat/chat.ts lines
\* 308-345 and 462-465, multi-doc-chat/chat.ts lines 309-353 and 526-529:
\* the prompt is issued, the port is opened, once the connection is there;
\* a rejected connection ends the process
afterConnect(ok) == IF ok THEN "serving" ELSE "exited"

\* the query a surface reads from its input: the chat loops trim the line
\* (pdf-chat/chat.ts line 347, multi-doc-chat/chat.ts line 359), the server
\* takes req.body.query as it is (line 169)
queryOf(prog, input) ==
  IF prog = "graph-visualizer" THEN input ELSE trim(input)

\* !query (server: !query || typeof query !== "string")
isRejected(prog, input) == ~Truthy(queryOf(prog, input))

\* queryLower === "exit" || queryLower === "quit"
isExit(prog, input) ==
  /\ prog # "graph-visualizer"
  /\ toLowerCase(queryOf(prog, input)) \in {<<"e","x","i","t">>, <<"q","u","i","t">>}

ServeInit ==
  /\ sprog = "none"
  /\ spc = "off"
  /\ sconn = "none"
  /\ sinput = <<>>
  /\ sstage = 0
  /\ scalls = <<>>
  /\ sreply = "none"
  /\ sserved = 0

\* main() or initializeConnection() is called: createHanaConnection is awaited
ServeStart(prog) ==
  /\ spc = "off"
  /\ sprog' = prog
  /\ spc' = "connecting"
  /\ UNCHANGED <<sconn, sinput, sstage, scalls, sreply, sserved>>
  /\ UNCHANGED notServeVars

\* createHanaConnection resolves or rejects
ConnectReturn(ok) ==
  /\ spc = "connecting"
  /\ sconn' = IF ok THEN "open" ELSE "none"
  /\ spc' = afterConnect(ok)
  /\ UNCHANGED <<sprog, sinput, sstage, scalls, sreply, sserved>>
  /\ UNCHANGED notServeVars

\* a line is typed or a request is posted: the handler up to its first
\* outbound call
ReceiveInput(input) ==
  /\ spc = "serving"
  /\ sserved < MaxRequests
  /\ sprog = "graph-visualizer" \/ input # Undefined
  /\ sinput' = input
  /\ sserved' = sserved + 1
  /\ IF isRejected(sprog, input)
       THEN /\ sreply' = IF sprog = "graph-visualizer" THEN "400" ELSE "reprompt"
            /\ UNCHANGED spc
            /\ sstage' = 0
            /\ scalls' = <<>>
       ELSE IF isExit(sprog, input)
         THEN /\ sreply' = "bye"
              /\ spc' = "exited"
              /\ sstage' = 0
              /\ scalls' = <<>>
       ELSE /\ sreply' = "none"
            /\ spc' = "handling"
            /\ sstage' = 1
            /\ scalls' = Pipeline(sprog)[1]
  /\ UNCHANGED <<sprog, sconn>>
  /\ UNCHANGED notServeVars

\* the calls of the stage in flight resolve; found tells whether there are
\* results to answer from (generateResponse calls the model only then)
StageReturn(found) ==
  /\ spc = "handling"
  /\ LET pipe == Pipeline(sprog)
         last == sstage = Len(pipe) \/ (pipe[sstage + 1] = <<"llm">> /\ ~found)
     IN  IF last
           THEN /\ sreply' = "answer"
                /\ spc' = "serving"
                /\ sstage' = 0
                /\ UNCHANGED scalls
           ELSE /\ sstage' = sstage + 1
                /\ scalls' = scalls \o pipe[sstage + 1]
                /\ UNCHANGED <<spc, sreply>>
  /\ UNCHANGED <<sprog, sconn, sinput, sserved>>
  /\ UNCHANGED notServeVars

\* a call of the stage in flight rejects: the catch of the handler reports
\* the error (the server with status 500) and the program goes on serving
StageThrow ==
  /\ spc = "handling"
  /\ sreply' = "error"
  /\ spc' = "serving"
  /\ sstage' = 0
  /\ UNCHANGED <<sprog, sconn, sinput, scalls, sserved>>
  /\ UNCHANGED notServeVars

ServeNext ==
  \/ \E prog \in Programs : ServeStart(prog)
  \/ \E ok \in BOOLEAN : ConnectReturn(ok)
  \/ \E input \in QueryInputs : ReceiveInput(input)
  \/ \E found \in BOOLEAN : StageReturn(found)
  \/ StageThrow

(***************************************************************************)
(* The outbound calls: embedModel.getTextEmbedding and                     *)
(* llmClient.structuredPredict at each of their call sites, and the batch   *)
(* or query that makes them.                                               *)
(***************************************************************************)
\* number of texts of a batch
MaxTexts == 2

MAX_RETRIES == 3
RETRY_DELAY_MS == 2000

MkSite(name, kind, retries, validates, batched) ==
  [name |-> name, kind |-> kind, retries |-> retries, validates |-> validates,
   batched |-> batched]

\* the call sites: whether the call is in a retry loop, whether the
\* embedding is checked for non-finite and too large values, whether the call
\* is one of a batch
Sites ==
  { MkSite("pdf-chat/chat.ts getTextEmbedding", "embed", TRUE, TRUE, FALSE),
    MkSite("multi-doc-chat/chat.ts getTextEmbedding", "embed", TRUE, FALSE, FALSE),
    MkSite("graph-visualizer/server/index.ts getTextEmbedding", "embed", FALSE, FALSE, FALSE),
    MkSite("pdf-chat/upload-pdf.ts getTextEmbedding", "embed", TRUE, TRUE, TRUE),
    MkSite("multi-doc-chat/upload-docs.ts getTextEmbedding", "embed", TRUE, TRUE, TRUE),
    MkSite("pdf-chat/upload-pdf.ts structuredPredict", "extract", TRUE, TRUE, TRUE),
    MkSite("multi-doc-chat/upload-docs.ts structuredPredict", "extract", TRUE, TRUE, TRUE) }

\* what the provider can answer to one attempt: a good payload, no answer in
\* time, a payload of the wrong format (neither array nor base64 string, not
\* JSON), an embedding with non-finite or too large values, JSON that does
\* not match the schema, a refusal of the request because of its input
Outcomes(kind) ==
  IF kind = "embed"
    THEN {"ok", "timeout", "malformed", "outOfRange", "inputError"}
    ELSE {"ok", "timeout", "malformed", "schemaMismatch", "inputError"}

\* the body of the try block: value, empty or throw
attemptResult(site, o) ==
  IF o = "ok" THEN "value"
  ELSE IF o = "outOfRange" THEN (IF site.validates THEN "throw" ELSE "value")
  ELSE IF o = "schemaMismatch" THEN "empty"
  ELSE "throw"

\* the catch block and the end of the loop: sleep and try again, or end the
\* call
afterThrow(site, attempt) ==
  IF site.retries /\ attempt < MAX_RETRIES THEN "sleep"
  ELSE IF site.kind = "extract" THEN "empty"
  ELSE "rejected"

RetryInit ==
  /\ tsite = MkSite("none", "none", FALSE, FALSE, FALSE)
  /\ tpc = "idle"
  /\ tattempt = 0
  /\ tdelays = <<>>
  /\ tlast = "none"
  /\ tseen = {}
  /\ tresult = "none"
  /\ tn = 0
  /\ tdone = 0
  /\ tunit = "none"

\* a query or a batch of n texts starts and makes its first call
UnitStart(site, n) ==
  /\ tunit = "none"
  /\ site.batched \/ n = 1
  /\ tsite' = site
  /\ tn' = n
  /\ tdone' = 0
  /\ tunit' = "running"
  /\ tpc' = "calling"
  /\ tattempt' = 1
  /\ UNCHANGED <<tdelays, tlast, tseen, tresult>>
  /\ UNCHANGED notRetryVars

\* the provider answers the attempt in flight
ProviderResponds(o) ==
  /\ tpc = "calling"
  /\ o \in Outcomes(tsite.kind)
  /\ tlast' = o
  /\ tseen' = tseen \cup {o}
  /\ LET r == attemptResult(tsite, o)
         e == afterThrow(tsite, tattempt)
     IN  IF r # "throw"
           THEN /\ tresult' = r
                /\ tpc' = "ended"
                /\ UNCHANGED tdelays
           ELSE IF e = "sleep"
             THEN /\ tdelays' = Append(tdelays, RETRY_DELAY_MS * tattempt)
                  /\ tpc' = "sleeping"
                  /\ UNCHANGED tresult
           ELSE /\ tresult' = e
                /\ tpc' = "ended"
                /\ UNCHANGED tdelays
  /\ UNCHANGED <<tsite, tattempt, tn, tdone, tunit>>
  /\ UNCHANGED notRetryVars

\* the sleep is over: the next attempt
SleepDone ==
  /\ tpc = "sleeping"
  /\ tpc' = "calling"
  /\ tattempt' = tattempt + 1
  /\ UNCHANGED <<tsite, tdelays, tlast, tseen, tresult, tn, tdone, tunit>>
  /\ UNCHANGED notRetryVars

\* the caller gets the outcome of the call: a rejection rejects the
\* Promise.all of the batch and reaches the catch of the query; otherwise the
\* next call of the batch is made
CallEnd ==
  /\ tpc = "ended"
  /\ tunit = "running"
  /\ IF tresult = "rejected"
       THEN /\ tunit' = "aborted"
            /\ UNCHANGED <<tpc, tattempt, tdelays, tlast, tseen, tresult, tdone>>
       ELSE IF tdone + 1 = tn
         THEN /\ tunit' = "done"
              /\ tdone' = tdone + 1
              /\ UNCHANGED <<tpc, tattempt, tdelays, tlast, tseen, tresult>>
       ELSE /\ tdone' = tdone + 1
            /\ tpc' = "calling"
            /\ tattempt' = 1
            /\ tdelays' = <<>>
            /\ tlast' = "none"
            /\ tseen' = {}
            /\ tresult' = "none"
            /\ UNCHANGED tunit
  /\ UNCHANGED <<tsite, tn>>
  /\ UNCHANGED notRetryVars

RetryNext ==
  \/ \E site \in Sites, n \in 1..MaxTexts : UnitStart(site, n)
  \/ \E o \in Outcomes("embed") \cup Outcomes("extract") : ProviderResponds(o)
  \/ SleepDone
  \/ CallEnd

(***************************************************************************)
(* embedModel.getTextEmbeddingBatch of the two upload scripts.             *)
(***************************************************************************)
\* length of the short text lists, number of calls in one run of a script
MaxBatchLen == 2
MaxBatchCalls == 2

EMBED_CONCURRENCY == 5

Ta == <<"a">>
Tb == <<"b">>

\* a list with more distinct texts than one Promise.all takes, and a repeat
LongTexts == << Ta, Tb, <<"c">>, <<"d">>, <<"e">>, <<"f">>, <<"g">>, Ta >>

BatchInputs == SeqsUpTo({Ta, Tb}, MaxBatchLen) \cup {LongTexts}

\* what the provider returns for a text
EmbeddingOf(t) == <<"embedding of", t>>

\* [...new Set(texts)]: the distinct texts in the order of their first
\* occurrence
RECURSIVE uniqueFrom(_, _, _)
uniqueFrom(texts, i, acc) ==
  IF i > Len(texts) THEN acc
  ELSE uniqueFrom(texts, i + 1,
         IF \E j \in 1..Len(acc) : acc[j] = texts[i] THEN acc
         ELSE Append(acc, texts[i]))

uniqueTexts(texts) == uniqueFrom(texts, 1, <<>>)

\* the texts the loop embeds: upload-pdf starts from an empty cache in every
\* call, upload-docs keeps embeddingCache for the life of the process
toCompute(prog, texts, cache) ==
  IF prog = "upload-pdf" THEN uniqueTexts(texts)
  ELSE SelectSeq(uniqueTexts(texts), LAMBDA t : t \notin DOMAIN cache)

\* toCompute.slice(i, i + EMBED_CONCURRENCY), as the indices of toCompute
batchIndices(todo, i) == { k \in 1..Len(todo) : i < k /\ k <= i + EMBED_CONCURRENCY }

\* batch.forEach((text, idx) => cache.set(text, embeddings[idx]))
cacheSet(cache, todo, done) ==
  [t \in DOMAIN cache \cup { todo[k] : k \in DOMAIN done } |->
     IF \E k \in DOMAIN done : todo[k] = t
       THEN done[CHOOSE k \in DOMAIN done : todo[k] = t]
       ELSE cache[t]]

\* the unique embeddings, one per distinct text
mapUnique(texts, cache) ==
  [i \in 1..Len(uniqueTexts(texts)) |-> cache[uniqueTexts(texts)[i]]]

\* texts.map(t => cache.get(t))
mapOriginal(texts, cache) == [i \in 1..Len(texts) |-> cache[texts[i]]]

EmptyMap == [t \in {} |-> <<>>]

BatchInit ==
  /\ bprog = "none"
  /\ bpc = "idle"
  /\ btexts = <<>>
  /\ bcache = EmptyMap
  /\ btodo = <<>>
  /\ bi = 0
  /\ bdone = EmptyMap
  /\ bresult = <<>>
  /\ bhits = {}
  /\ bcalls = 0

\* getTextEmbeddingBatch(texts) is called and runs up to its first await
BatchStart(prog, texts) ==
  /\ bpc \in {"idle", "returned"}
  /\ bcalls < MaxBatchCalls
  /\ bprog \in {"none", prog}
  /\ bprog' = prog
  /\ bcalls' = bcalls + 1
  /\ btexts' = texts
  /\ bcache' = IF prog = "upload-pdf" THEN EmptyMap ELSE bcache
  /\ btodo' = toCompute(prog, texts, bcache)
  /\ bhits' = IF prog = "upload-pdf" THEN {}
              ELSE { texts[i] : i \in 1..Len(texts) } \cap DOMAIN bcache
  /\ bi' = 0
  /\ bdone' = EmptyMap
  /\ bresult' = <<>>
  /\ bpc' = "computing"
  /\ UNCHANGED notBatchVars

\* one getTextEmbedding of the running Promise.all resolves; the calls of a
\* batch resolve in any order
EmbedResolve(k) ==
  /\ bpc = "computing"
  /\ k \in batchIndices(btodo, bi) \ DOMAIN bdone
  /\ bdone' = [j \in DOMAIN bdone \cup {k} |->
                 IF j = k THEN EmbeddingOf(btodo[k]) ELSE bdone[j]]
  /\ UNCHANGED <<bprog, bpc, btexts, bcache, btodo, bi, bresult, bhits, bcalls>>
  /\ UNCHANGED notBatchVars

\* one getTextEmbedding rejects: Promise.all rejects, the await throws and
\* the call rejects without touching the cache
EmbedReject(k) ==
  /\ bpc = "computing"
  /\ k \in batchIndices(btodo, bi) \ DOMAIN bdone
  /\ bpc' = "rejected"
  /\ UNCHANGED <<bprog, btexts, bcache, btodo, bi, bdone, bresult, bhits, bcalls>>
  /\ UNCHANGED notBatchVars

\* Promise.all resolves: the embeddings are stored and the loop steps on
BatchJoin ==
  /\ bpc = "computing"
  /\ bi < Len(btodo)
  /\ batchIndices(btodo, bi) = DOMAIN bdone
  /\ bcache' = cacheSet(bcache, btodo, bdone)
  /\ bi' = bi + EMBED_CONCURRENCY
  /\ bdone' = EmptyMap
  /\ UNCHANGED <<bprog, bpc, btexts, btodo, bresult, bhits, bcalls>>
  /\ UNCHANGED notBatchVars

\* the loop is over: the embeddings in the order of the texts; upload-docs
\* throws on a text that is not in the cache
BatchReturn ==
  /\ bpc = "computing"
  /\ bi >= Len(btodo)
  /\ IF \A i \in 1..Len(btexts) : btexts[i] \in DOMAIN bcache
       THEN /\ bresult' = mapOriginal(btexts, bcache)
            /\ bpc' = "returned"
       ELSE /\ bpc' = "rejected"
            /\ UNCHANGED bresult
  /\ UNCHANGED <<bprog, btexts, bcache, btodo, bi, bdone, bhits, bcalls>>
  /\ UNCHANGED notBatchVars

BatchNext ==
  \/ \E prog \in {"upload-pdf", "upload-docs"}, texts \in BatchInputs :
       BatchStart(prog, texts)
  \/ \E k \in 1..Len(LongTexts) : EmbedResolve(k)
  \/ \E k \in 1..Len(LongTexts) : EmbedReject(k)
  \/ BatchJoin
  \/ BatchReturn

(***************************************************************************)
(* The multi-document chat over a sequence of inputs: the commands, the    *)
(* question and compare handlers and the failures of their awaited calls.  *)
(***************************************************************************)
\* number of inputs in one run of the chat
MaxInputs == 3

\* String.prototype.startsWith
startsWith(s, prefix) ==
  Len(s) >= Len(prefix) /\ SubSeq(s, 1, Len(prefix)) = prefix

\* String.prototype.slice(n)
sliceFrom(s, n) == SubSeq(s, n + 1, Len(s))

\* String.prototype.split(/\s+/)
RECURSIVE splitFrom(_, _, _, _)
splitFrom(s, i, cur, acc) ==
  IF i > Len(s) THEN Append(acc, cur)
  ELSE IF s[i] = " "
    THEN IF i > 1 /\ s[i - 1] = " "
           THEN splitFrom(s, i + 1, cur, acc)
           ELSE splitFrom(s, i + 1, <<>>, Append(acc, cur))
  ELSE splitFrom(s, i + 1, Append(cur, s[i]), acc)

split(s) == splitFrom(s, 1, <<>>, <<>>)

\* what the user types
SessionInputs ==
  { <<" "," ">>,
    <<"h","e","l","p">>,
    <<"f","i","l","t","e","r">>,
    <<"f","i","l","t","e","r"," ","c","l","e","a","r">>,
    <<" ","F","I","L","T","E","R"," ","C","L","E","A","R"," ">>,
    <<"f","i","l","t","e","r"," "," ","c","l","e","a","r">>,
    <<"f","i","l","t","e","r"," ","i","n","s","t","a","l","l","a","t","i","o","n">>,
    <<"F","i","l","t","e","r"," ","G","U","I","D","E"," "," ","m","a","n","u","a","l">>,
    <<"f","i","l","t","e","r"," ","x","y","z">>,
    <<"s","o","u","r","c","e","s">>,
    <<"c","o","m","p","a","r","e"," ","s","e","t","u","p">>,
    <<"w","h","a","t"," ","i","s"," ","i","t">>,
    <<"e","x","i","t">> }

\* lines 359-467: the branch of the handler an input takes
commandOf(input) ==
  LET query == trim(input)
      queryLower == toLowerCase(query)
  IN  IF ~Truthy(query) THEN "empty"
      ELSE IF queryLower = <<"e","x","i","t">> \/ queryLower = <<"q","u","i","t">> THEN "exit"
      ELSE IF queryLower = <<"h","e","l","p">> THEN "help"
      ELSE IF queryLower = <<"f","i","l","t","e","r">> THEN "filter"
      ELSE IF queryLower = <<"f","i","l","t","e","r"," ","c","l","e","a","r">> THEN "filter clear"
      ELSE IF startsWith(queryLower, <<"f","i","l","t","e","r"," ">>) THEN "filter set"
      ELSE IF queryLower = <<"s","o","u","r","c","e","s">> THEN "sources"
      ELSE IF startsWith(queryLower, <<"c","o","m","p","a","r","e"," ">>) THEN "compare"
      ELSE "question"

\* lines 405-410 without the split
filterSetUnsplit(input, filter) == << trim(sliceFrom(trim(input), 7)) >>

\* lines 405-410: the filter after "filter <doc1> <doc2>"
filterSet(input, filter) ==
  LET docs == split(trim(sliceFrom(trim(input), 7)))
  IN  IF Len(docs) > 0 /\ Truthy(docs[1]) THEN docs ELSE filter

\* the results of the store for a query
SessionKgLists ==
  { <<>>,
    << MkResult(Chunk4, 900) >>,
    << MkResult(Chunk4, 900), MkResult(Chunk1, 800) >>,
    << MkResult(Chunk3, 800) >> }

SessionChunkLists == { <<>>, << MkResult(Chunk2, 900) >> }

\* why directSourceChunkSearch can fail: hanaConn is not set, the nodes
\* table does not exist, exec reports an error
DirectFailures == {"no connection", "missing table", "sql error"}

\* lines 106, 133-136 rethrowing the error
directSearchRethrow(cause) == "rejected"

\* lines 106, 133-136: every failure resolves with []
directSearchCatch(cause) == <<>>

\* lines 441, 480-488: the results of a query from the merged results
resultsOf(cmd, m, filter) ==
  IF cmd = "compare" THEN m
  ELSE IF Len(filter) > 0 THEN filterResultsByDocument(m, filter) ELSE m

SessionInit ==
  /\ mpc = "prompt"
  /\ mfilter = <<>>
  /\ mlast = <<>>
  /\ mcmd = "none"
  /\ mwait = {}
  /\ mkg = <<>>
  /\ mchunk = <<>>
  /\ mdirect = "none"
  /\ mresults = <<>>
  /\ mfilterAt = <<>>
  /\ mreply = "none"
  /\ merror = "none"
  /\ mgenerated = 0
  /\ mreport = <<>>
  /\ minputs = 0
  /\ minput = <<>>

\* lines 358-427: the handler of an input that is no query runs to its end
\* and issues the next prompt
SessionCommand(input) ==
  /\ mpc = "prompt"
  /\ minputs < MaxInputs
  /\ commandOf(input) \notin {"question", "compare"}
  /\ minputs' = minputs + 1
  /\ minput' = input
  /\ mpc' = IF commandOf(input) = "exit" THEN "exited" ELSE "prompt"
  /\ mfilter' = IF commandOf(input) = "filter clear" THEN <<>>
                ELSE IF commandOf(input) = "filter set" THEN filterSet(input, mfilter)
                ELSE mfilter
  /\ mreport' = IF commandOf(input) = "sources" THEN mlast ELSE mreport
  /\ mreply' = "none"
  /\ merror' = "none"
  /\ UNCHANGED <<mlast, mcmd, mwait, mkg, mchunk, mdirect, mresults, mfilterAt, mgenerated>>
  /\ UNCHANGED notSessionVars

\* lines 429-437, 467-472: a question or a compare, up to the embedding
\* request
SessionQuery(input) ==
  /\ mpc = "prompt"
  /\ minputs < MaxInputs
  /\ commandOf(input) \in {"question", "compare"}
  /\ minputs' = minputs + 1
  /\ minput' = input
  /\ mcmd' = commandOf(input)
  /\ mpc' = "embedding"
  /\ mreply' = "none"
  /\ merror' = "none"
  /\ mgenerated' = 0
  /\ mdirect' = "none"
  /\ UNCHANGED <<mfilter, mlast, mwait, mkg, mchunk, mresults, mfilterAt, mreport>>
  /\ UNCHANGED notSessionVars

\* lines 437-441, 472-478: the embedding arrives, both searches start
SessionEmbedReturn ==
  /\ mpc = "embedding"
  /\ mpc' = "searching"
  /\ mwait' = {"kg", "direct"}
  /\ mkg' = <<>>
  /\ mchunk' = <<>>
  /\ UNCHANGED <<mfilter, mlast, mcmd, mdirect, mresults, mfilterAt, mreply, merror,
                 mgenerated, mreport, minputs, minput>>
  /\ UNCHANGED notSessionVars

\* lines 459-462, 513-516: an awaited call of the query rejects; the catch
\* prints the error and the next prompt is issued
SessionFail(call) ==
  /\ mpc' = "prompt"
  /\ mcmd' = "none"
  /\ mwait' = {}
  /\ mreply' = "error"
  /\ merror' = call
  /\ UNCHANGED <<mfilter, mlast, mkg, mchunk, mdirect, mresults, mfilterAt, mgenerated,
                 mreport, minputs, minput>>
  /\ UNCHANGED notSessionVars

\* the embedding request rejects
SessionEmbedThrow ==
  /\ mpc = "embedding"
  /\ SessionFail("embedding")

\* index.query resolves
SessionKgReturn(rs) ==
  /\ mpc = "searching"
  /\ "kg" \in mwait
  /\ mkg' = Tag(rs, "graph")
  /\ mwait' = mwait \ {"kg"}
  /\ UNCHANGED <<mpc, mfilter, mlast, mcmd, mchunk, mdirect, mresults, mfilterAt, mreply,
                 merror, mgenerated, mreport, minputs, minput>>
  /\ UNCHANGED notSessionVars

\* index.query rejects
SessionKgReject ==
  /\ mpc = "searching"
  /\ "kg" \in mwait
  /\ SessionFail("index.query")

\* directSourceChunkSearch resolves with rows
SessionDirectReturn(rs) ==
  /\ mpc = "searching"
  /\ "direct" \in mwait
  /\ mchunk' = Tag(rs, "direct")
  /\ mdirect' = "rows"
  /\ mwait' = mwait \ {"direct"}
  /\ UNCHANGED <<mpc, mfilter, mlast, mcmd, mkg, mresults, mfilterAt, mreply, merror,
                 mgenerated, mreport, minputs, minput>>
  /\ UNCHANGED notSessionVars

\* directSourceChunkSearch fails
SessionDirectFail(cause) ==
  /\ mpc = "searching"
  /\ "direct" \in mwait
  /\ IF directSearchCatch(cause) = "rejected"
       THEN /\ mdirect' = cause
            /\ mpc' = "prompt"
            /\ mcmd' = "none"
            /\ mwait' = {}
            /\ mreply' = "error"
            /\ merror' = "direct search"
            /\ UNCHANGED mchunk
       ELSE /\ mchunk' = Tag(directSearchCatch(cause), "direct")
            /\ mdirect' = cause
            /\ mwait' = mwait \ {"direct"}
            /\ UNCHANGED <<mpc, mcmd, mreply, merror>>
  /\ UNCHANGED <<mfilter, mlast, mkg, mresults, mfilterAt, mgenerated, mreport, minputs, minput>>
  /\ UNCHANGED notSessionVars

\* lines 441-449, 480-502, 206-213: both searches have resolved; merge,
\* filter, sources; without results generateResponse returns the fixed
\* reply and the next prompt is issued, with results the answer generator
\* is requested
SessionJoined ==
  /\ mpc = "searching"
  /\ mwait = {}
  /\ LET rs == resultsOf(mcmd, mergeResults(mkg, mchunk), mfilter)
     IN  /\ mresults' = rs
         /\ mlast' = getDocumentSources(rs)
         /\ IF Len(rs) = 0
              THEN /\ mreply' = "fixed"
                   /\ mpc' = "prompt"
                   /\ mcmd' = "none"
                   /\ UNCHANGED mgenerated
              ELSE /\ mpc' = "generating"
                   /\ mgenerated' = mgenerated + 1
                   /\ UNCHANGED <<mreply, mcmd>>
  /\ mfilterAt' = mfilter
  /\ UNCHANGED <<mfilter, mwait, mkg, mchunk, mdirect, merror, mreport, minputs, minput>>
  /\ UNCHANGED notSessionVars

\* lines 450-458, 503-512: the answer arrives and is printed, the next
\* prompt is issued
SessionGenerateReturn ==
  /\ mpc = "generating"
  /\ mpc' = "prompt"
  /\ mcmd' = "none"
  /\ mreply' = "generated"
  /\ UNCHANGED <<mfilter, mlast, mwait, mkg, mchunk, mdirect, mresults, mfilterAt,
                 merror, mgenerated, mreport, minputs, minput>>
  /\ UNCHANGED notSessionVars

\* the request to the answer generator rejects
SessionGenerateThrow ==
  /\ mpc = "generating"
  /\ SessionFail("generator")

SessionNext ==
  \/ \E input \in SessionInputs : SessionCommand(input)
  \/ \E input \in SessionInputs : SessionQuery(input)
  \/ SessionEmbedReturn
  \/ SessionEmbedThrow
  \/ \E rs \in SessionKgLists : SessionKgReturn(rs)
  \/ SessionKgReject
  \/ \E rs \in SessionChunkLists : SessionDirectReturn(rs)
  \/ \E cause \in DirectFailures : SessionDirectFail(cause)
  \/ SessionJoined
  \/ SessionGenerateReturn
  \/ SessionGenerateThrow

(***************************************************************************)
(* The prompt loop of the two chat programs: rl.question registers the     *)
(* handler of the next line, a line typed while no handler is registered   *)
(* reaches none, and a handler calls askQuestion when it is through.       *)
(***************************************************************************)
\* number of lines typed in one run
MaxLines == 4

LoopInputs ==
  { <<>>,
    <<"h","e","l","p">>,
    <<"a","u","t","o","-","e","x","p","l","a","i","n">>,
    <<"e","x","p","l","a","i","n","-","l","a","s","t">>,
    <<"e","x","p","l","a","i","n"," ","s","e","t","u","p">>,
    <<"f","i","l","t","e","r"," ","a">>,
    <<"c","o","m","p","a","r","e"," ","s","e","t","u","p">>,
    <<"w","h","a","t"," ","i","s"," ","i","t">>,
    <<"q","u","i","t">> }

\* pdf-chat/chat.ts lines 347-420: the branch of the handler an input takes
pdfCommandOf(input) ==
  LET query == trim(input)
      queryLower == toLowerCase(query)
  IN  IF ~Truthy(query) THEN "empty"
      ELSE IF queryLower = <<"e","x","i","t">> \/ queryLower = <<"q","u","i","t">> THEN "exit"
      ELSE IF queryLower = <<"h","e","l","p">> THEN "help"
      ELSE IF queryLower = <<"a","u","t","o","-","e","x","p","l","a","i","n">> THEN "auto-explain"
      ELSE IF queryLower = <<"e","x","p","l","a","i","n","-","l","a","s","t">> THEN "explain-last"
      ELSE IF startsWith(queryLower, <<"e","x","p","l","a","i","n"," ">>) THEN "explain"
      ELSE "question"

branchOf(prog, input) ==
  IF prog = "pdf-chat" THEN pdfCommandOf(input) ELSE commandOf(input)

\* the awaited calls of a handler, in order; none for a command
awaitsOf(prog, branch, auto, hasLast) ==
  IF prog = "multi-doc-chat"
    THEN IF branch \in {"question", "compare"}
           THEN <<"embedding", "searches", "generateResponse">>
           ELSE <<>>
  ELSE IF branch = "explain" \/ (branch = "explain-last" /\ hasLast)
    THEN <<"explainRetrieval", "index.query", "generateResponse">>
  ELSE IF branch = "question"
    THEN IF auto THEN <<"explainRetrieval", "index.query", "generateResponse">>
         ELSE <<"index.query", "generateResponse">>
  ELSE <<>>

\* askQuestion() called before the awaited work of the handler
askQuestionFirst(branch) == "start"

\* where a handler calls askQuestion(): after its try/catch, as its last
\* statement; exit and quit call process.exit instead
askQuestionAt(branch) == IF branch = "exit" THEN "never" ELSE "end"

LoopInit ==
  /\ lprog = "none"
  /\ lalive = FALSE
  /\ lpending = FALSE
  /\ lflight = <<>>
  /\ lprompts = 0
  /\ lfinished = 0
  /\ llines = 0
  /\ lauto = FALSE
  /\ lhasLast = FALSE

\* main() has connected and calls askQuestion() for the first time
LoopStart(prog) ==
  /\ lprog = "none"
  /\ lprog' = prog
  /\ lalive' = TRUE
  /\ lpending' = TRUE
  /\ lprompts' = 1
  /\ UNCHANGED <<lflight, lfinished, llines, lauto, lhasLast>>
  /\ UNCHANGED notLoopVars

\* a line is typed while a handler is registered: the handler runs up to
\* its first await, or to its end when it awaits nothing
LineHandled(input) ==
  /\ lalive
  /\ lpending
  /\ llines < MaxLines
  /\ llines' = llines + 1
  /\ LET branch == branchOf(lprog, input)
         calls == awaitsOf(lprog, branch, lauto, lhasLast)
         early == askQuestionAt(branch) = "start"
     IN  /\ lauto' = IF lprog = "pdf-chat" /\ branch = "auto-explain" THEN ~lauto ELSE lauto
         /\ lhasLast' = (lhasLast \/ (lprog = "pdf-chat" /\ branch = "question"))
         /\ IF branch = "exit"
              THEN /\ lalive' = FALSE
                   /\ lpending' = FALSE
                   /\ UNCHANGED <<lflight, lprompts, lfinished>>
              ELSE IF calls = <<>>
                THEN /\ lpending' = TRUE
                     /\ lprompts' = lprompts + 1
                     /\ lfinished' = lfinished + 1
                     /\ UNCHANGED <<lflight, lalive>>
              ELSE /\ lflight' = Append(lflight, [calls |-> calls, at |-> 1, asked |-> early])
                   /\ lpending' = early
                   /\ lprompts' = IF early THEN lprompts + 1 ELSE lprompts
                   /\ UNCHANGED <<lfinished, lalive>>
  /\ UNCHANGED lprog
  /\ UNCHANGED notLoopVars

\* a line is typed while no handler is registered: readline has no question
\* callback to give it to
LineDropped ==
  /\ lalive
  /\ ~lpending
  /\ llines < MaxLines
  /\ llines' = llines + 1
  /\ UNCHANGED <<lprog, lalive, lpending, lflight, lprompts, lfinished, lauto, lhasLast>>
  /\ UNCHANGED notLoopVars

\* the awaited call of a handler in flight settles: resolved and more to
\* await (generateResponse is awaited only by its caller's await; found
\* tells whether it requests the model), or the handler runs to its end,
\* through the catch when the call rejected
HandlerStep(h, resolved, found) ==
  /\ lalive
  /\ h \in DOMAIN lflight
  /\ LET r == lflight[h]
         more == resolved /\ r.at < Len(r.calls)
                          /\ (found \/ r.calls[r.at + 1] # "generateResponse")
         rest == [i \in 1..(Len(lflight) - 1) |-> IF i < h THEN lflight[i] ELSE lflight[i + 1]]
     IN  IF more
           THEN /\ lflight' = [lflight EXCEPT ![h].at = r.at + 1]
                /\ UNCHANGED <<lpending, lprompts, lfinished>>
           ELSE /\ lflight' = rest
                /\ lfinished' = lfinished + 1
                /\ lpending' = TRUE
                /\ lprompts' = IF r.asked THEN lprompts ELSE lprompts + 1
  /\ UNCHANGED <<lprog, lalive, llines, lauto, lhasLast>>
  /\ UNCHANGED notLoopVars

LoopNext ==
  \/ \E prog \in {"pdf-chat", "multi-doc-chat"} : LoopStart(prog)
  \/ \E input \in LoopInputs : LineHandled(input)
  \/ LineDropped
  \/ \E h \in 1..MaxLines, resolved \in BOOLEAN, found \in BOOLEAN : HandlerStep(h, resolved, found)

(***************************************************************************)
(* getGraphContext of the visualization server under concurrent            *)
(* /api/query requests. A handler runs without interruption from one await *)
(* to the next.                                                            *)
(***************************************************************************)
\* number of requests in flight at the same time
MaxClients == 3

\* the upper-case letter of every lower-case letter
UpperOf == [c \in {LowerChars[i] : i \in DOMAIN LowerChars} |->
              UpperChars[CHOOSE i \in DOMAIN LowerChars : LowerChars[i] = c]]

UpperChar(c) == IF c \in DOMAIN UpperOf THEN UpperOf[c] ELSE c

\* String.prototype.toUpperCase
toUpperCase(s) == [i \in 1..Len(s) |-> UpperChar(s[i])]

\* line 41, with GRAPH_NAME not set in the environment
DEFAULT_GRAPH_NAME == toUpperCase(<<"M","U","L","T","I","_","D","O","C","_","G","R","A","P","H">>)

\* the graphName field of a request body; Undefined when it is missing
GraphNames ==
  { Undefined, <<>>,
    <<"d","o","c","s">>,
    <<" ","D","o","c","s"," ">>,
    <<" "," ">>,
    <<"m","u","l","t","i","_","d","o","c","_","g","r","a","p","h">> }

\* line 209: String(graphName || DEFAULT_GRAPH_NAME)
graphNameArgument(graphName) == IF Truthy(graphName) THEN graphName ELSE DEFAULT_GRAPH_NAME

\* line 101 without the trim and the upper-casing
normalizeRaw(graphName) == OrElse(graphName, DEFAULT_GRAPH_NAME)

\* line 101
normalize(graphName) ==
  toUpperCase(OrElse(trim(OrElse(graphName, <<>>)), DEFAULT_GRAPH_NAME))

NoRequest == [pc |-> "none", graphName |-> Undefined, normalized |-> Undefined, ctx |-> 0]

ContextInit ==
  /\ gcache = EmptyMap
  /\ gcreated = <<>>
  /\ greqs = [r \in 1..MaxClients |-> NoRequest]

\* lines 197-209: a request arrives with a valid query; the handler calls
\* getGraphContext, which runs to its return without an await (lookup, and
\* on a miss construction and set), and waits for the promise
RequestArrives(r, graphName) ==
  /\ greqs[r].pc = "none"
  /\ LET normalized == normalize(graphNameArgument(graphName))
     IN  IF normalized \in DOMAIN gcache
           THEN /\ greqs' = [greqs EXCEPT ![r] = [pc |-> "await", graphName |-> graphName,
                                                   normalized |-> normalized,
                                                   ctx |-> gcache[normalized]]]
                /\ UNCHANGED <<gcache, gcreated>>
           ELSE /\ gcreated' = Append(gcreated, normalized)
                /\ gcache' = [n \in DOMAIN gcache \cup {normalized} |->
                                IF n = normalized THEN Len(gcreated) + 1 ELSE gcache[n]]
                /\ greqs' = [greqs EXCEPT ![r] = [pc |-> "await", graphName |-> graphName,
                                                   normalized |-> normalized,
                                                   ctx |-> Len(gcreated) + 1]]
  /\ UNCHANGED notContextVars

\* lines 209-214: the await resumes with the context; the handler goes on
\* to the embedding request and the rest of the query
ContextReceived(r) ==
  /\ greqs[r].pc = "await"
  /\ greqs' = [greqs EXCEPT ![r].pc = "querying"]
  /\ UNCHANGED <<gcache, gcreated>>
  /\ UNCHANGED notContextVars

ContextNext ==
  \/ \E r \in 1..MaxClients, graphName \in GraphNames : RequestArrives(r, graphName)
  \/ \E r \in 1..MaxClients : ContextReceived(r)

(***************************************************************************)
(* chunkText of the upload scripts.                                        *)
(***************************************************************************)
\* length of the text, largest chunkSize
MaxTextLen == 5
MaxChunkSize == 4

ChunkTexts == SeqsUpTo({"a", "b"}, MaxTextLen)

\* String.prototype.slice(start, end) for 0 <= start <= end <= length
sliceRange(s, start, end) == SubSeq(s, start + 1, end)

\* the loop stepping by chunkSize
nextStartNoOverlap(start, chunkSize, overlap) == start + chunkSize

\* start += chunkSize - overlap
nextStart(start, chunkSize, overlap) == start + chunkSize - overlap

ChunkInit ==
  /\ kpc = "idle"
  /\ ktext = <<>>
  /\ kchunkSize = 1
  /\ koverlap = 0
  /\ kstart = 0
  /\ kchunks = <<>>

\* chunkText(text, chunkSize, overlap) is called
ChunkTextCall(text, chunkSize, overlap) ==
  /\ kpc = "idle"
  /\ chunkSize > overlap
  /\ kpc' = "loop"
  /\ ktext' = text
  /\ kchunkSize' = chunkSize
  /\ koverlap' = overlap
  /\ kstart' = 0
  /\ kchunks' = <<>>
  /\ UNCHANGED notChunkVars

\* one run of the loop body
ChunkLoop ==
  /\ kpc = "loop"
  /\ kstart < Len(ktext)
  /\ LET end == Min(kstart + kchunkSize, Len(ktext))
     IN  kchunks' = Append(kchunks, sliceRange(ktext, kstart, end))
  /\ kstart' = nextStart(kstart, kchunkSize, koverlap)
  /\ UNCHANGED <<kpc, ktext, kchunkSize, koverlap>>
  /\ UNCHANGED notChunkVars

\* the loop condition is false: return chunks
ChunkReturn ==
  /\ kpc = "loop"
  /\ ~(kstart < Len(ktext))
  /\ kpc' = "returned"
  /\ UNCHANGED <<ktext, kchunkSize, koverlap, kstart, kchunks>>
  /\ UNCHANGED notChunkVars

ChunkNext ==
  \/ \E text \in ChunkTexts, chunkSize \in 1..MaxChunkSize, overlap \in 0..(MaxChunkSize - 1) :
       ChunkTextCall(text, chunkSize, overlap)
  \/ ChunkLoop
  \/ ChunkReturn

Init ==
  /\ ExplainInit /\ ChatInit /\ RepeatInit /\ ServeInit /\ RetryInit
  /\ BatchInit /\ SessionInit /\ LoopInit /\ ContextInit /\ ChunkInit

SpecChat == Init /\ [][ChatNext]_vars

SpecExplain == Init /\ [][ExplainNext]_vars

SpecExplainMismatch == Init /\ [][ExplainMismatchNext]_vars

SpecRepeat == Init /\ [][RepeatNext]_vars

SpecServe == Init /\ [][ServeNext]_vars

SpecRetry == Init /\ [][RetryNext]_vars

SpecBatch == Init /\ [][BatchNext]_vars

SpecSession == Init /\ [][SessionNext]_vars

SpecLoop == Init /\ [][LoopNext]_vars

SpecContext == Init /\ [][ContextNext]_vars

\* a call that has started keeps running
SpecChunk == Init /\ [][ChunkNext]_vars /\ WF_vars(ChunkLoop) /\ WF_vars(ChunkReturn)

(***************************************************************************)
(* Properties of explainRetrieval.                                         *)
(***************************************************************************)
ReservedPredicate(p) ==
  p = FROM_DOCUMENT \/ p = RDF_TYPE \/ includes(p, PROP_MARKER)

\* C1: no triplet whose predicate is FROM_DOCUMENT, the RDF type predicate or
\* contains "urn:hkv:prop:" appears in the scored/ranked triplet list, also
\* when no returned triplet is semantic.
C1_NoReservedPredicateRanked ==
  \A i \in DOMAIN scoredTriplets :
    ~ReservedPredicate(predicateOf(scoredTriplets[i].triplet))

\* C2: for boostFactor >= 1 and base in (0,1], base <= boosted <= 1, and no
\* scored triplet carries a score above 1.
C2_BoostedWithinBounds ==
  \A i \in DOMAIN scoredTriplets :
    LET r == scoredTriplets[i]
        f == options.crossCheckBoostFactor
    IN  /\ r.score <= ScoreOne
        /\ (f.num >= f.den /\ r.baseScore > 0 /\ r.baseScore <= ScoreOne)
             => (r.baseScore <= r.score /\ r.score <= ScoreOne)

\* a boosted triplet whose product base * factor exceeds 1 and was clamped
C2_Witness ==
  /\ epc = "done"
  /\ \E i \in DOMAIN scoredTriplets :
       LET r == scoredTriplets[i]
           f == options.crossCheckBoostFactor
       IN  /\ r.boostedReason = "provenance match"
           /\ r.baseScore * f.num > ScoreOne * f.den
           /\ r.baseScore < r.score
           /\ r.score = ScoreOne

C3_FieldsOf(n) ==
  {n.id, n.name, n.properties.documentId, n.properties.sourceChunk} \ {Undefined}

C3_ProvenanceSet ==
  { toLowerCase(v) : v \in UNION { C3_FieldsOf(kgNodes[i]) : i \in DOMAIN kgNodes } }

C3_Corroborated(t) ==
  \E v \in C3_FieldsOf(t[1]) \cup C3_FieldsOf(t[3]) : toLowerCase(v) \in C3_ProvenanceSet

\* C3: with boosting enabled and base > 0 the final score is
\* min(1, base * boostFactor) if a lower-cased id, name, documentId or
\* sourceChunk of subject or object is in the ProvenanceSet, and base
\* otherwise; with boosting disabled or base = 0 it is base.
C3_BoostRule ==
  \A i \in DOMAIN scoredTriplets :
    LET r == scoredTriplets[i]
        f == options.crossCheckBoostFactor
    IN  r.score =
          IF options.crossCheckBoost /\ r.baseScore > 0 /\ C3_Corroborated(r.triplet)
            THEN Min(ScoreOne, (r.baseScore * f.num) \div f.den)
            ELSE r.baseScore

\* the example of the specification (seed A with 0.9, triplet (A, RELATED_TO, C)
\* sharing A's documentId, factor 1.25, final score 1.0) next to a triplet
\* with base > 0 that no provenance corroborates
C3_Witness ==
  /\ epc = "done"
  /\ options.crossCheckBoost
  /\ options.crossCheckBoostFactor = [num |-> 5, den |-> 4]
  /\ \E i \in DOMAIN scoredTriplets :
       LET r == scoredTriplets[i]
       IN  /\ r.triplet[1] = NodeA /\ r.triplet[3] = NodeC
           /\ r.baseScore = 900
           /\ r.score = ScoreOne
  /\ \E i \in DOMAIN scoredTriplets :
       LET r == scoredTriplets[i]
       IN  /\ r.baseScore > 0
           /\ ~C3_Corroborated(r.triplet)
           /\ r.score = r.baseScore

C4_IsSeed(n) == \E i \in DOMAIN kgNodes : kgNodes[i].id = n.id

C4_MatchScore(n) ==
  IF C4_IsSeed(n)
    THEN scores[CHOOSE i \in DOMAIN kgNodes : kgNodes[i].id = n.id]
    ELSE 0

\* C4: base = max(match score of s or 0, match score of o or 0); a triplet
\* touching no seed has base 0 and never precedes a triplet with a positive
\* score in the ranked list.
C4_BaseScoreAndSeedlessLast ==
  \A i \in DOMAIN scoredTriplets :
    LET r == scoredTriplets[i]
        s == r.triplet[1]
        o == r.triplet[3]
    IN  /\ r.baseScore = Max(C4_MatchScore(s), C4_MatchScore(o))
        /\ (~C4_IsSeed(s) /\ ~C4_IsSeed(o)) =>
             /\ r.baseScore = 0
             /\ \A j \in DOMAIN scoredTriplets : j > i => scoredTriplets[j].score <= 0

\* a seedless triplet that expansion returned first is ranked behind a
\* triplet with a positive score
C4_Witness ==
  /\ epc = "done"
  /\ \E i, j \in DOMAIN scoredTriplets :
       /\ i < j
       /\ scoredTriplets[i].score > 0
       /\ ~C4_IsSeed(scoredTriplets[j].triplet[1])
       /\ ~C4_IsSeed(scoredTriplets[j].triplet[3])
       /\ scoredTriplets[j].ord < scoredTriplets[i].ord

\* C5: the ranked list is a permutation of the scored triplets in
\* non-increasing order of boosted score, and triplets with equal boosted
\* score keep the relative order in which graph expansion returned them.
C5_RankedIsStableSort ==
  LET src == scoredSource(triplets)
      n == Len(scoredTriplets)
  IN  /\ epc = "done" /\ Len(kgNodes) > 0 => n = Len(src)
      /\ { scoredTriplets[i].ord : i \in 1..n } = 1..n
      /\ \A i \in 1..n : scoredTriplets[i].triplet = src[scoredTriplets[i].ord]
      /\ \A i, j \in 1..n :
           i < j =>
             /\ scoredTriplets[i].score >= scoredTriplets[j].score
             /\ scoredTriplets[i].score = scoredTriplets[j].score
                  => scoredTriplets[i].ord < scoredTriplets[j].ord

\* two different triplets tie, and the sort moved a triplet in front of one
\* that expansion returned before it
C5_Witness ==
  /\ epc = "done"
  /\ \E j, k \in DOMAIN scoredTriplets :
       /\ j < k
       /\ scoredTriplets[j].score = scoredTriplets[k].score
       /\ scoredTriplets[j].triplet # scoredTriplets[k].triplet
  /\ \E a, b \in DOMAIN scoredTriplets :
       /\ a < b
       /\ scoredTriplets[a].ord > scoredTriplets[b].ord
       /\ scoredTriplets[a].score > scoredTriplets[b].score

\* C27: when explainRetrieval runs with crossCheckBoost enabled and every
\* vector-matched node has a non-empty id, every scored triplet with
\* base > 0 takes the boost branch: none of them keeps its base score for
\* want of a provenance match.
C27_PositiveBaseIsBoosted ==
  (epc = "done" /\ options.crossCheckBoost /\ \A i \in DOMAIN kgNodes : Truthy(kgNodes[i].id)) =>
    \A i \in DOMAIN scoredTriplets :
      scoredTriplets[i].baseScore > 0 =>
        /\ scoredTriplets[i].boostedReason = "provenance match"
        /\ scoredTriplets[i].score =
             Min(ScoreOne, (scoredTriplets[i].baseScore * options.crossCheckBoostFactor.num)
                             \div options.crossCheckBoostFactor.den)

\* a run with boosting on and seeds that all have an id has scored a
\* triplet with base > 0, boosted, and a triplet with base 0, not boosted
C27_Witness ==
  /\ epc = "done"
  /\ options.crossCheckBoost
  /\ kgNodes # <<>>
  /\ \A i \in DOMAIN kgNodes : Truthy(kgNodes[i].id)
  /\ \E i \in DOMAIN scoredTriplets :
       /\ scoredTriplets[i].baseScore > 0
       /\ scoredTriplets[i].boostedReason = "provenance match"
  /\ \E i \in DOMAIN scoredTriplets :
       /\ scoredTriplets[i].baseScore = 0
       /\ scoredTriplets[i].boostedReason = "null"

\* a ranked list of explainRetrieval without its ghost fields
ExplainedOf(l) ==
  [i \in 1..Len(l) |-> [triplet |-> l[i].triplet, baseScore |-> l[i].baseScore,
                        score |-> l[i].score]]

\* C18: for every vector-match list, expansion result and options, the base
\* and boosted score of every triplet and the ranked order that
\* explainRetrieval reports are those of the production ranking for the same
\* inputs.
C18_ExplainEqualsProduction ==
  (epc = "done" /\ Len(kgNodes) > 0) =>
    ExplainedOf(scoredTriplets) = productionRank(triplets, options, kgNodes, scores)

\* C19: when vectorQuery returns a nodes array and a scores array of
\* different lengths the vector match stage fails: no match is reported with
\* a missing or substituted score, and expansion, scoring and ranking do not
\* run.
C19_MismatchedLengthsAreFatal ==
  Len(kgNodes) # Len(scores) =>
    /\ epc \notin {"getRelMap", "done"}
    /\ triplets = <<>>
    /\ scoredTriplets = <<>>

(***************************************************************************)
(* Properties of mergeResults and of the document filter.                  *)
(***************************************************************************)
\* the dedup key as specified: the first 200 characters of the text, the
\* node id when there is no text
KeyOf(r) ==
  LET t == r.node.text
  IN  IF t # Undefined /\ Len(t) > 0
        THEN [i \in 1..Min(200, Len(t)) |-> t[i]]
        ELSE r.node.id

SortScore(r) == IF r.score = NoScore THEN 0 ELSE r.score

\* C6: when a direct-channel result has the dedup key of a graph-channel
\* result, the merged list has exactly one entry for that key and it is the
\* graph-channel object with its own score, even when the direct-channel
\* duplicate has a strictly higher score.
C6_FirstSeenWins ==
  cpc = "generating" =>
    \A g \in DOMAIN kgResults, d \in DOMAIN chunkResults :
      KeyOf(kgResults[g]) = KeyOf(chunkResults[d]) =>
        LET hits == {i \in DOMAIN merged : KeyOf(merged[i]) = KeyOf(chunkResults[d])}
            first == CHOOSE h \in DOMAIN kgResults :
                       /\ KeyOf(kgResults[h]) = KeyOf(kgResults[g])
                       /\ \A h2 \in 1..(h - 1) : KeyOf(kgResults[h2]) # KeyOf(kgResults[g])
        IN  /\ Cardinality(hits) = 1
            /\ \A i \in hits : merged[i].channel = "graph" /\ merged[i] = kgResults[first]

\* a direct-channel duplicate with a strictly higher score was dropped
C6_Witness ==
  /\ cpc = "generating"
  /\ \E g \in DOMAIN kgResults, d \in DOMAIN chunkResults :
       /\ KeyOf(kgResults[g]) = KeyOf(chunkResults[d])
       /\ SortScore(chunkResults[d]) > SortScore(kgResults[g])
       /\ \E i \in DOMAIN merged : merged[i] = kgResults[g]
       /\ \A i \in DOMAIN merged : merged[i] # chunkResults[d]

C8_MergedSortedStable ==
  \A i, j \in DOMAIN merged :
    i < j =>
      /\ SortScore(merged[i]) >= SortScore(merged[j])
      /\ SortScore(merged[i]) = SortScore(merged[j]) =>
           \/ merged[i].channel = "graph" /\ merged[j].channel = "direct"
           \/ merged[i].channel = merged[j].channel /\ merged[i].pos < merged[j].pos

\* a graph entry and a direct entry tie, and the entry without score, first
\* in its channel, is sorted behind them
C8_Witness ==
  /\ cpc = "generating"
  /\ \E i, j, k \in DOMAIN merged :
       /\ i < j /\ j < k
       /\ SortScore(merged[i]) = SortScore(merged[j])
       /\ merged[i].channel = "graph" /\ merged[j].channel = "direct"
       /\ merged[k].score = NoScore
       /\ merged[k].pos = 1

\* C9: for fixed channel results the merged list does not depend on which of
\* the two concurrent calls completes first.
C9_MergeIgnoresCompletionOrder ==
  cpc = "generating" =>
    /\ merged = mergeResults(kgResults, chunkResults)
    /\ \A i \in DOMAIN merged :
         merged[i].channel = "direct" =>
           \A g \in DOMAIN kgResults : KeyOf(kgResults[g]) # KeyOf(merged[i])

\* the direct channel completed first and its duplicate was still the one
\* dropped
C9_Witness ==
  /\ cpc = "generating"
  /\ settled = <<"direct", "kg">>
  /\ \E g \in DOMAIN kgResults, d \in DOMAIN chunkResults :
       /\ KeyOf(kgResults[g]) = KeyOf(chunkResults[d])
       /\ kgResults[g].score # chunkResults[d].score
       /\ \E i \in DOMAIN merged : merged[i] = kgResults[g]

\* C10: with a non-empty filter a result passes filterResultsByDocument iff
\* the document id getResultDocumentId resolves for it contains a filter
\* string as a case-insensitive substring.
C10_FilterUsesResolvedDocumentId ==
  (cpc = "generating" /\ Len(documentFilter) > 0) =>
    \A i \in DOMAIN merged :
      (\E j \in DOMAIN results : results[j] = merged[i])
        <=> LET d == getResultDocumentId(merged[i])
            IN  /\ d # Undefined
                /\ \E k \in DOMAIN documentFilter :
                     includes(toLowerCase(d), toLowerCase(documentFilter[k]))

\* the scores mergeResults sorts a list by
SortKeys(l) == [i \in 1..Len(l) |-> SortScore(l[i])]

\* the position of x in l
PosIn(l, x) == CHOOSE p \in DOMAIN l : l[p] = x

\* C11: document filtering commutes with score sorting: filtering the
\* score-sorted list equals score-sorting the filtered list, for every filter
\* set, and the survivors of the filter keep their relative order.
C11_FilterCommutesWithSort ==
  cpc = "generating" =>
    LET X == dedup(kgResults, chunkResults)
    IN  /\ \A F \in FilterInputs \cup {documentFilter} :
             LET fs == filterResultsByDocument(sortDesc(X, SortKeys(X)), F)
                 fX == filterResultsByDocument(X, F)
             IN  /\ fs = sortDesc(fX, SortKeys(fX))
                 /\ \A i, j \in DOMAIN fs :
                      i < j => PosIn(merged, fs[i]) < PosIn(merged, fs[j])
        /\ Len(documentFilter) > 0 =>
             results = filterResultsByDocument(sortDesc(X, SortKeys(X)), documentFilter)

\* the sort moved a result in front of one its channel returned earlier, both
\* pass the filter and a third result does not
C11_Witness ==
  /\ cpc = "generating"
  /\ Len(documentFilter) > 0
  /\ Len(results) < Len(merged)
  /\ \E i, j \in DOMAIN results :
       /\ i < j
       /\ results[i].channel = results[j].channel
       /\ results[i].pos > results[j].pos

(***************************************************************************)
(* Properties of a query asked twice.                                      *)
(***************************************************************************)
\* a merged list without its ghost fields
MergedOf(l) == [i \in 1..Len(l) |-> [node |-> l[i].node, score |-> l[i].score]]

Elements(l) == { l[i] : i \in DOMAIN l }

\* the two lists hold the same entries and the same score at every position:
\* they differ at most in the order of entries with equal score
SameUpToTies(a, b, key(_)) ==
  /\ Len(a) = Len(b)
  /\ Elements(a) = Elements(b)
  /\ \A i \in DOMAIN a : key(a[i]) = key(b[i])

TripletScore(r) == r.score

DistinctKeys(l) == \A i, j \in DOMAIN l : i # j => KeyOf(l[i]) # KeyOf(l[j])

\* C12 as stated: the identical query run twice against an unchanged store
\* yields the identical ranked order of triplets and of merged results.
C12_IdenticalRankedOrder ==
  /\ Len(rranked) = 2 => ExplainedOf(rranked[1]) = ExplainedOf(rranked[2])
  /\ Len(rmerged) = 2 => MergedOf(rmerged[1]) = MergedOf(rmerged[2])

\* C12 as amended: when both runs get the same matches, triplets and channel
\* results from the store, in whatever order, the ranked triplets of the two
\* runs are the same and have the same score at every position, so that they
\* differ at most in the order of triplets with equal boosted score; the
\* merged results hold the same dedup keys and, when no channel returns two
\* results with one dedup key, differ at most in the order of results with
\* equal score.
C12_IdenticalUpToTies ==
  /\ Len(rranked) = 2 =>
       SameUpToTies(ExplainedOf(rranked[1]), ExplainedOf(rranked[2]), TripletScore)
  /\ Len(rmerged) = 2 =>
       /\ { KeyOf(rmerged[1][i]) : i \in DOMAIN rmerged[1] }
            = { KeyOf(rmerged[2][i]) : i \in DOMAIN rmerged[2] }
       /\ (DistinctKeys(rinputs[1][1]) /\ DistinctKeys(rinputs[1][2])) =>
            SameUpToTies(MergedOf(rmerged[1]), MergedOf(rmerged[2]), SortScore)

\* expansion returned the triplets in another order the second time; the
\* ranked lists have two different scores and differ in the order of a tie
C12_Witness ==
  /\ Len(rranked) = 2
  /\ rinputs[1] # rinputs[2]
  /\ ExplainedOf(rranked[1]) # ExplainedOf(rranked[2])
  /\ \E i, j \in DOMAIN rranked[1] : rranked[1][i].score > rranked[1][j].score

(***************************************************************************)
(* Properties of start-up and of the query surfaces.                       *)
(***************************************************************************)
\* C13: a query that is empty, also one that is empty after trimming, is
\* rejected at once at every query surface (re-prompt of the chat loops,
\* status 400 of POST /api/query) and no embedding, store or model call is
\* issued for it.
C13_EmptyQueryRejected ==
  (sserved > 0 /\ (sinput = Undefined \/ trim(sinput) = <<>>)) =>
    /\ scalls = <<>>
    /\ sreply \in {"400", "reprompt"}
    /\ spc = "serving"

\* C20: no query is served before the store connection is established: the
\* port is opened and the first prompt issued only after createHanaConnection
\* succeeded, and a connection failure ends the process with no query served.
C20_ConnectedBeforeServing ==
  /\ (spc \in {"serving", "handling"} \/ sserved > 0 \/ scalls # <<>> \/ sreply # "none")
       => sconn = "open"
  /\ (spc \notin {"off", "connecting"} /\ sconn # "open")
       => (spc = "exited" /\ sserved = 0 /\ scalls = <<>> /\ sreply = "none")

\* the server has answered a query: its connection is open
C20_Witness ==
  /\ sprog = "graph-visualizer"
  /\ sconn = "open"
  /\ sreply = "answer"
  /\ Len(scalls) = 5

(***************************************************************************)
(* Properties of the outbound calls.                                       *)
(***************************************************************************)
Transient == {"timeout", "malformed", "outOfRange"}

\* the delays before attempts 2..k: RETRY_DELAY_MS * 1, ..., RETRY_DELAY_MS * (k-1)
LinearDelays(k) == [i \in 1..(k - 1) |-> RETRY_DELAY_MS * i]

\* C14: at every call site a failed attempt is retried, at most MAX_RETRIES
\* attempts are made, the delay before attempt k+1 is RETRY_DELAY_MS * k, and
\* the call ends after the last attempt without a further wait: a call that
\* ends without a value on a transient failure has made all MAX_RETRIES
\* attempts.
C14_BoundedLinearRetry ==
  /\ tattempt <= MAX_RETRIES
  /\ tpc = "calling" => tdelays = LinearDelays(tattempt)
  /\ tpc = "sleeping" => (tattempt < MAX_RETRIES /\ tdelays = LinearDelays(tattempt + 1))
  /\ (tpc = "ended" /\ tlast \in Transient /\ tresult # "value") =>
       /\ tattempt = MAX_RETRIES
       /\ tdelays = LinearDelays(MAX_RETRIES)

\* C15: a failure caused by the caller's input is never retried: it makes
\* exactly one outbound attempt and no delay.
C15_InputErrorNotRetried ==
  "inputError" \in tseen => (tattempt = 1 /\ tdelays = <<>> /\ tpc = "ended")

\* C16: a transient I/O failure that persists through all attempts is
\* escalated: the embedding call and the extraction call reject with the last
\* error and return no value.
C16_PersistentFailureEscalates ==
  (tpc = "ended" /\ tseen # {} /\ tseen \subseteq {"timeout", "malformed"}) =>
    tresult = "rejected"

\* C17: a validation failure (non-finite or out-of-range embedding values,
\* extraction output that does not match the schema) makes the affected call
\* contribute an empty result and never aborts the enclosing query or batch.
C17_ValidationFailureDegrades ==
  /\ (tpc = "ended" /\ tlast \in {"outOfRange", "schemaMismatch"} /\ tsite.validates)
       => tresult = "empty"
  /\ (tunit = "aborted") => tlast \notin {"outOfRange", "schemaMismatch"}

(***************************************************************************)
(* Properties of getTextEmbeddingBatch.                                    *)
(***************************************************************************)
\* C21: a call of getTextEmbeddingBatch that resolves, resolves with an
\* array as long as texts whose i-th entry is the embedding of texts[i],
\* whether or not texts repeats a text and whether or not a text was cached.
C21_BatchPreservesOrder ==
  bpc = "returned" =>
    /\ Len(bresult) = Len(btexts)
    /\ \A i \in 1..Len(btexts) : bresult[i] = EmbeddingOf(btexts[i])

\* a call with a repeated text, a cached text and two rounds of Promise.all
\* has resolved
C21_Witness ==
  /\ bpc = "returned"
  /\ Len(uniqueTexts(btexts)) < Len(btexts)
  /\ bhits # {}
  /\ Len(btodo) > EMBED_CONCURRENCY
  /\ Len(bresult) = Len(btexts)

(***************************************************************************)
(* Properties of the multi-document chat over a sequence of inputs.        *)
(***************************************************************************)
\* the retrieval of the last query has completed
Retrieved == mpc = "generating" \/ mreply \in {"fixed", "generated"} \/ merror = "generator"

\* C22: when the direct chunk search of a query fails (no connection handle,
\* missing table, SQL error), its channel counts as an empty list, the
\* failure is not what ends the query, and a retrieval that completes holds
\* graph results only: all of them when no filter is active.
C22_DirectFailureDegrades ==
  mdirect \in DirectFailures =>
    /\ mchunk = <<>>
    /\ merror # "direct search"
    /\ Retrieved =>
         /\ \A j \in DOMAIN mresults : mresults[j].channel = "graph"
         /\ mfilterAt = <<>> =>
              \A i \in DOMAIN mkg : \E j \in DOMAIN mresults : mresults[j].node = mkg[i].node

\* a query whose direct search failed for a missing table was answered from
\* two graph results
C22_Witness ==
  /\ mdirect = "missing table"
  /\ mreply = "generated"
  /\ Len(mresults) = 2
  /\ \A j \in DOMAIN mresults : mresults[j].channel = "graph"

\* no result of the two channels is of a document the filter names
NothingMatches(filter) ==
  LET m == mergeResults(mkg, mchunk)
  IN  \A i \in DOMAIN m : ~passesFilter(m[i], filter)

\* C23: when the retrieval of a question or of a compare has completed and
\* the active document filter matches none of its results, or it returned
\* nothing, the result list is empty, no error is raised and the reply is
\* the fixed one, produced without a request to the answer generator.
C23_NoMatchIsEmptyNotError ==
  (Retrieved /\ ((mfilterAt # <<>> /\ NothingMatches(mfilterAt)) \/ (mkg = <<>> /\ mchunk = <<>>))) =>
    /\ mresults = <<>>
    /\ mreply = "fixed"
    /\ merror = "none"
    /\ mgenerated = 0

\* C25: while a filter is active, the results of every completed retrieval,
\* of a question or of a compare, that go to the answer generator are of
\* documents the filter names, and so are the recorded sources.
C25_FilterAppliesToEveryRetrieval ==
  (Retrieved /\ mfilterAt # <<>>) =>
    /\ \A i \in DOMAIN mresults : passesFilter(mresults[i], mfilterAt)
    /\ \A doc \in DOMAIN mlast :
         \E k \in DOMAIN mfilterAt : includes(toLowerCase(doc), toLowerCase(mfilterAt[k]))

\* the words of an input: its maximal runs of characters other than space,
\* from left to right
WordStarts(s) == { a \in 1..Len(s) : s[a] # " " /\ (a = 1 \/ s[a - 1] = " ") }

WordEnd(s, a) ==
  CHOOSE b \in a..Len(s) :
    /\ b = Len(s) \/ s[b + 1] = " "
    /\ \A k \in a..b : s[k] # " "

Words(s) ==
  LET starts == WordStarts(s)
  IN  [n \in 1..Cardinality(starts) |->
         LET a == CHOOSE q \in starts : Cardinality({ o \in starts : o < q }) = n - 1
         IN  SubSeq(s, a, WordEnd(s, a))]

\* the filter an input leaves behind: 'filter clear' empties it, 'filter'
\* followed by names sets it to the names, every other input keeps it
FilterAfter(input, filter) ==
  LET words == Words(input)
  IN  IF toLowerCase(trim(input)) = <<"f","i","l","t","e","r"," ","c","l","e","a","r">> THEN <<>>
      ELSE IF Len(words) >= 2 /\ toLowerCase(words[1]) = <<"f","i","l","t","e","r">> THEN Tail(words)
      ELSE filter

\* C24: the document filter changes only when an input is received, and
\* then only by 'filter clear' (to empty) and 'filter <doc...>' (to the
\* names); 'filter', 'sources', 'help', 'compare ...', questions and the
\* steps of a running query leave it as it is.
C24_FilterChangesOnlyByFilterCommands ==
  [][ mfilter' = IF minputs' # minputs THEN FilterAfter(minput', mfilter) ELSE mfilter ]_vars

\* a filter set by the first input is in force for the question that is
\* the third input
C24_Witness ==
  /\ minputs = 3
  /\ commandOf(minput) = "question"
  /\ mreply = "generated"
  /\ Len(mfilter) = 2
  /\ mfilterAt = mfilter

\* the passages of each document among results
PassageCounts(rs) ==
  [doc \in { getResultDocumentId(rs[i]) : i \in DOMAIN rs } \ {Undefined} |->
     Cardinality({ i \in DOMAIN rs : getResultDocumentId(rs[i]) = doc })]

\* C26: lastSources always holds the per-document passage counts of the
\* results of the most recent question or compare whose retrieval
\* completed (none before the first), whatever commands and failed queries
\* came since, and 'sources' reports exactly that.
C26_SourcesOfLastCompletedQuery ==
  [][ /\ mlast' = PassageCounts(mresults')
      /\ (minputs' # minputs /\ commandOf(minput') = "sources") =>
           mreport' = PassageCounts(mresults) ]_vars

\* 'sources', the third input, has reported two passages of one document
C26_Witness ==
  /\ commandOf(minput) = "sources"
  /\ minputs = 3
  /\ \E doc \in DOMAIN mreport : mreport[doc] = 2
  /\ mreport = PassageCounts(mresults)

(***************************************************************************)
(* Properties of the prompt loop.                                          *)
(***************************************************************************)
\* C28: in both chat loops at most one handler is in flight, no prompt is
\* waiting while it is, and the prompts issued are the first one and one for
\* every handler that ran to its end (empty line, command, query that
\* succeeded, query whose awaited call rejected).
C28_OneHandlerOnePrompt ==
  /\ Len(lflight) <= 1
  /\ lflight # <<>> => ~lpending
  /\ lprog # "none" => lprompts = 1 + lfinished

\* three lines were typed: a command, a query that ran to its end while a
\* line was typed and dropped, and the fourth prompt is waiting
C28_Witness ==
  /\ llines = 3
  /\ lfinished = 2
  /\ lprompts = 3
  /\ lpending
  /\ lflight = <<>>

(***************************************************************************)
(* Properties of getGraphContext.                                          *)
(***************************************************************************)
\* the graph a request names: the default when the name is missing or
\* blank, the name without surrounding blanks otherwise
NamedGraph(graphName) ==
  IF graphName = Undefined \/ trim(graphName) = <<>> THEN DEFAULT_GRAPH_NAME
  ELSE trim(graphName)

SameGraph(a, b) == toLowerCase(NamedGraph(a)) = toLowerCase(NamedGraph(b))

\* C29: however concurrent /api/query requests interleave, no two contexts
\* are created for one normalized graph name, and requests that name the
\* same graph, in whatever letter case, hold the same context.
C29_OneContextPerGraph ==
  /\ \A i, j \in DOMAIN gcreated : i # j => gcreated[i] # gcreated[j]
  /\ \A r, q \in DOMAIN greqs :
       (greqs[r].ctx # 0 /\ greqs[q].ctx # 0) =>
         (SameGraph(greqs[r].graphName, greqs[q].graphName) <=> greqs[r].ctx = greqs[q].ctx)

\* three requests in flight at once: two name one graph in different letter
\* case and hold the same context, the third holds the default graph's
C29_Witness ==
  /\ \A r \in DOMAIN greqs : greqs[r].pc \in {"await", "querying"}
  /\ \E r, q \in DOMAIN greqs :
       /\ r # q
       /\ greqs[r].graphName # greqs[q].graphName
       /\ trim(greqs[r].graphName) # <<>>
       /\ greqs[r].graphName # Undefined
       /\ greqs[r].ctx = greqs[q].ctx
  /\ Len(gcreated) = 2

(***************************************************************************)
(* Properties of chunkText.                                                *)
(***************************************************************************)
\* the first chunk followed by every later chunk without its first overlap
\* characters
RECURSIVE Reassembled(_, _, _)
Reassembled(chunks, overlap, i) ==
  IF i > Len(chunks) THEN <<>>
  ELSE (IF i = 1 THEN chunks[1] ELSE SubSeq(chunks[i], overlap + 1, Len(chunks[i])))
         \o Reassembled(chunks, overlap, i + 1)

\* C30: for chunkSize > overlap >= 0 every call of chunkText returns, no
\* chunk is longer than chunkSize, and the first chunk followed by the later
\* chunks without their first overlap characters is the text.
C30_ChunksCoverText ==
  /\ [](kpc = "returned" =>
          /\ \A i \in DOMAIN kchunks : Len(kchunks[i]) <= kchunkSize
          /\ Reassembled(kchunks, koverlap, 1) = ktext)
  /\ [](kpc = "loop" => <>(kpc = "returned"))

\* a call with overlap has returned three or more chunks, the last of them
\* no longer than the overlap
C30_Witness ==
  /\ kpc = "returned"
  /\ koverlap >= 1
  /\ Len(kchunks) >= 3
  /\ Len(kchunks[Len(kchunks)]) <= koverlap
  /\ Reassembled(kchunks, koverlap, 1) = ktext

====
